---------------------------- MODULE Spec2Model ----------------------------
(***************************************************************************)
(* A model of the task-execution core of the craftassist agent            *)
(* (python/craftassist/tasks.py): the tasks Move, Build, Destroy, Fill,    *)
(* Dig, Spawn, Loop and Undo, stepped one at a time from the top of the    *)
(* shared task stack, in a small voxel world.                              *)
(*                                                                         *)
(* Conventions.  A cell is a triple <<x, y, z>> (y is up).  A block is its *)
(* block-type id; the variant ("meta") half of an idm pair is left out,    *)
(* because tasks.py never branches on it.  A task's memid is its index in  *)
(* the task table `tasks`.  Python's None is the empty sequence for a path *)
(* and the empty set for a snapshot that was not taken.                    *)
(***************************************************************************)
EXTENDS Integers, Sequences, FiniteSets, TLC

VARIABLES
    world,        \* the voxel world: cell -> block type
    pos,          \* agent.pos: the cell of the agent's feet
    tasks,        \* every task ever created, by memid
    stack,        \* the task stack, memids, top last
    triples,      \* the memory's triple store
    objOf,        \* the memory's block objects: cell -> memid of its object, 0 for none
    unreachable,  \* the cells search.astar finds no route to
    placeModes,   \* the outcomes agent.place_block may have in this world
    calls,        \* the collaborator calls made by the last step, in order
    chats,        \* every chat sent so far, with the memid of the task that sent it
    stepped,      \* the memid of the task the last step stepped, 0 for none
    digs,         \* how often each cell was dug
    raised,       \* the exception that ended the run, "none" if none
    nEnv,         \* world changes made by others so far
    phase         \* the position of the caller's script

vars == <<world, pos, tasks, stack, triples, objOf, unreachable, placeModes,
          calls, chats, stepped, digs, raised, nEnv, phase>>

-----------------------------------------------------------------------------
(* Bounds of the model. *)

\* The world is the box 0..MaxX by 0..MaxY by 0..MaxZ.
MaxX == 4
MaxY == 1
MaxZ == 0
\* At most this many tasks are ever created.
MaxTasks == 7
\* At most this many world changes by others.
MaxEnv == 1

-----------------------------------------------------------------------------
(* Block data (block_data.py). *)

AIR == 0
STONE == 1
GRASS == 2
DIRT == 3
BEDROCK == 7
WATER == 8

Blocks == {AIR, STONE, GRASS, DIRT, WATER}
PASSABLE_BLOCKS == {AIR, WATER}
BUILD_IGNORE_BLOCKS == {WATER}
BUILD_INTERCHANGEABLE_PAIRS == {{GRASS, DIRT}}
BUILD_BLOCK_REPLACE_MAP == [b \in Blocks |-> IF b = WATER THEN AIR ELSE b]

-----------------------------------------------------------------------------
(* Geometry (util.py). *)

\* The box of cells the scenarios put the world in.
Region == (0..MaxX) \X (0..MaxY) \X (0..MaxZ)
\* The cells of the world; outside there is bedrock.
Cells == DOMAIN world

Abs(n) == IF n < 0 THEN -n ELSE n
Plus(a, b) == <<a[1] + b[1], a[2] + b[2], a[3] + b[3]>>
Minus(a, b) == <<a[1] - b[1], a[2] - b[2], a[3] - b[3]>>
Dot(a, b) == a[1] * b[1] + a[2] * b[2] + a[3] * b[3]
manhat_dist(a, b) == Abs(a[1] - b[1]) + Abs(a[2] - b[2]) + Abs(a[3] - b[3])
Sign(n) == IF n < 0 THEN -1 ELSE IF n > 0 THEN 1 ELSE 0
UP == <<0, 1, 0>>

Min(S) == CHOOSE m \in S : \A n \in S : m <= n
Max(S) == CHOOSE m \in S : \A n \in S : m >= n
\* np.min(xyzs, axis=0)
MinCorner(cs) == <<Min({c[1] : c \in cs}), Min({c[2] : c \in cs}), Min({c[3] : c \in cs})>>
MaxCorner(cs) == <<Max({c[1] : c \in cs}), Max({c[2] : c \in cs}), Max({c[3] : c \in cs})>>

\* A scenario has at most this many cells in its schematic or target list.
MaxCells == 2

\* The ground row, where the scenarios put the agent and the blocks.
Ground == {c \in Region : c[2] = 0 /\ c[3] = 0}
-----------------------------------------------------------------------------
(* The agent's capability surface. *)

\* agent.get_blocks at one cell; outside the box the world is bedrock.
get_block(w, c) == IF c \in Cells THEN w[c] ELSE BEDROCK

\* agent.dig
dig(w, c) == IF c \in Cells THEN [w EXCEPT ![c] = AIR] ELSE w

\* The agent stands at p with its head at p + UP; both are in the box.
ValidPos(p) == p \in Cells /\ Plus(p, UP) \in Cells

\* agent.step_pos_x and the five others: one step along vec, if the world allows it.
step_fn(p, vec) == IF ValidPos(Plus(p, vec)) THEN Plus(p, vec) ELSE p

\* agent.place_block of block b at cell c with outcome o: "ok" places it and
\* returns True, "fail" returns False, "bad" returns True without placing.
place_block(w, c, b, o) == IF o = "ok" /\ c \in Cells THEN [w EXCEPT ![c] = b] ELSE w
PlaceReturns(o) == o # "fail"

\* search.astar(agent, target, approx): a route from p to within approx of
\* target, nearest waypoint last (the list ends with p itself), or None.
RECURSIVE Route(_, _, _)
Route(p, target, approx) ==
    IF manhat_dist(p, target) <= approx THEN <<p>>
    ELSE LET d == Minus(target, p)
             v == IF d[1] # 0 THEN <<Sign(d[1]), 0, 0>>
                  ELSE IF d[3] # 0 THEN <<0, 0, Sign(d[3])>>
                  ELSE <<0, Sign(d[2]), 0>>
         IN  Append(Route(Plus(p, v), target, approx), p)

None == <<>>
astar(p, target, approx) ==
    IF target \in unreachable THEN None ELSE Route(p, target, approx)

-----------------------------------------------------------------------------
(* The task stack (memory.task_stack_push and the scheduler). *)

Top == stack[Len(stack)]
NewId == Len(tasks) + 1
CanStep(k) ==
    /\ raised = "none"
    /\ stack # <<>>
    /\ tasks[Top].kind = k
    /\ ~tasks[Top].finished

\* Task.__init__
Task(k, parent) == [kind |-> k, interrupted |-> FALSE, finished |-> FALSE, parent |-> parent]


\* A set as a sequence, in a fixed order (the iteration order of a Python set).
RECURSIVE SeqOf(_)
SeqOf(S) == IF S = {} THEN <<>> ELSE LET e == CHOOSE e \in S : TRUE IN <<e>> \o SeqOf(S \ {e})

\* npy_to_blocks_list of the world over the cells cs: the (cell, block) pairs
\* of the cells that hold a block.
BlocksOf(w, cs) == {<<c, get_block(w, c)>> : c \in {d \in cs : get_block(w, d) # AIR}}

\* The world and the dig counts after digging every cell of cs.
DigAll(w, cs) == [c \in Cells |-> IF c \in cs THEN AIR ELSE w[c]]
Dug(d, cs) == [c \in Cells |-> IF c \in cs THEN d[c] + 1 ELSE d[c]]

-----------------------------------------------------------------------------
(* The memory: block objects and triples. *)

\* The memory keeps every block it has seen in a block object: the blocks a
\* Build placed in the object of that Build, named by the Build's memid, and
\* the blocks of the terrain in one object of their own.
TerrainObj == -1

\* The memid of the block object at cell c, 0 if there is none
\* (memory.get_block_object_by_xyz, memory.get_block_object_ids_by_xyz).
ObjAt(o, c) == IF c \in Cells THEN o[c] ELSE 0
\* mem.blocks.keys()
ObjBlocks(o, id) == {c \in Cells : o[c] = id}
\* The memory sees a dug block leave its object.
Forget(o, cs) == [c \in Cells |-> IF c \in cs THEN 0 ELSE o[c]]
\* The memory sees a block the agent placed (pending_agent_placed_blocks) join
\* the object the task is building.
Perceive(o, c, id) == IF c \in Cells THEN [o EXCEPT ![c] = id] ELSE o
\* memory.get_triples(subj=id, pred=pred)
get_triples(tr, id, pred) == {x \in tr : x[1] = <<"obj", id>> /\ x[2] = pred}

-----------------------------------------------------------------------------
(* Move *)

\* Move.STEP_FNS, in the order of the dict.
STEP_FNS == << <<1, 0, 0>>, <<-1, 0, 0>>, <<0, 1, 0>>, <<0, -1, 0>>, <<0, 0, 1>>, <<0, 0, -1>> >>

\* Move.__init__
Move(target, approx, parent) ==
    [kind |-> "Move", interrupted |-> FALSE, finished |-> FALSE, parent |-> parent,
     target |-> target, approx |-> approx, path |-> None, replace |-> {}]

\* Move.step, "replace blocks if possible": out gives place_block's outcome
\* for each queued pair.
FlushWorld(w, R, out) ==
    [c \in Cells |->
        IF \E e \in R : e[1] = c /\ out[e] = "ok"
        THEN (CHOOSE e \in R : e[1] = c /\ out[e] = "ok")[2]
        ELSE w[c]]
FlushObjects(o, R, out) ==
    [c \in Cells |-> IF \E e \in R : e[1] = c /\ out[e] = "ok" THEN TerrainObj ELSE o[c]]
FlushKeepsNone(R, out) == {}
FlushKeeps(R, out) == {e \in R : ~PlaceReturns(out[e])}
FlushCalls(R, out) ==
    LET es == SeqOf(R)
    IN  [i \in 1..Len(es) |-> <<"place", es[i][1], es[i][2], PlaceReturns(out[es[i]])>>]

\* The test for having arrived, with < for <=.
MoveArrivedStrict(p, m) == manhat_dist(p, m.target) < m.approx

\* Move.step, "check if finished"
MoveArrived(p, m) == manhat_dist(p, m.target) <= m.approx

\* handle_no_path with the sign of the dot product turned around.
NoPathDirAway(p, target) ==
    LET good == {i \in 1..6 : Dot(Minus(target, p), STEP_FNS[i]) < 0}
    IN  IF good = {} THEN 0 ELSE Min(good)

\* Move.handle_no_path: the first direction of STEP_FNS with a positive dot
\* product with target - pos, 0 if there is none.
NoPathDir(p, target) ==
    LET good == {i \in 1..6 : Dot(Minus(target, p), STEP_FNS[i]) > 0}
    IN  IF good = {} THEN 0 ELSE Min(good)
\* the blocks handle_no_path digs: those of the foot and head cell of newpos
NoPathBlocks(w, newpos) == BlocksOf(w, {newpos, Plus(newpos, UP)})

\* handle_no_path that digs and then stays where it is.
NoPathStay(p, vec) == p
\* Move.handle_no_path, "move": the movement primitive of the direction
NoPathMove(p, vec) == step_fn(p, vec)

\* Move.step
StepMove ==
    /\ CanStep("Move")
    /\ LET t == Top
           m == tasks[t]
       IN \E out \in [m.replace -> placeModes] :
          LET w1 == FlushWorld(world, m.replace, out)
              o1 == FlushObjects(objOf, m.replace, out)
              R1 == FlushKeeps(m.replace, out)
              c1 == FlushCalls(m.replace, out)
              needPath == m.path = None \/ pos # m.path[Len(m.path)]
              path1 == IF needPath THEN astar(pos, m.target, m.approx) ELSE m.path
              c2 == IF needPath THEN c1 \o << <<"astar", m.target>> >> ELSE c1
          IN
          /\ stepped' = t
          /\ UNCHANGED <<stack, unreachable, placeModes, nEnv, phase, chats>>
          /\ IF MoveArrived(pos, m)
             THEN /\ tasks' = [tasks EXCEPT ![t].interrupted = FALSE, ![t].replace = R1,
                                            ![t].finished = TRUE]
                  /\ triples' = triples \cup {<<<<"task", t>>, "task_effect_", m.target>>}
                  /\ world' = w1
                  /\ calls' = c1
                  /\ objOf' = o1
                  /\ UNCHANGED <<pos, digs, raised>>
             ELSE IF path1 = None
             THEN \* handle_no_path
                  LET i == NoPathDir(pos, m.target)
                      vec == STEP_FNS[i]
                      newpos == Plus(pos, vec)
                      found == NoPathBlocks(w1, newpos)
                      cs == {e[1] : e \in found}
                      fs == SeqOf(found)
                  IN  /\ triples' = triples
                      /\ raised' = raised
                      /\ IF i = 0
                         THEN /\ tasks' = [tasks EXCEPT ![t].interrupted = FALSE,
                                                        ![t].replace = R1, ![t].path = None]
                              /\ world' = w1
                              /\ calls' = c2
                              /\ objOf' = o1
                              /\ UNCHANGED <<pos, digs>>
                         ELSE /\ tasks' = [tasks EXCEPT ![t].interrupted = FALSE,
                                                        ![t].replace = R1 \cup found,
                                                        ![t].path = None]
                              /\ world' = DigAll(w1, cs)
                              /\ digs' = Dug(digs, cs \cap Cells)
                              /\ objOf' = Forget(o1, cs)
                              /\ pos' = NoPathMove(pos, vec)
                              /\ calls' = c2 \o [k \in 1..Len(fs) |-> <<"dig", fs[k][1]>>]
                                             \o << <<"move", vec>> >>
             ELSE \* take a step on the path
                  LET path2 == SubSeq(path1, 1, Len(path1) - 1)
                  IN  /\ triples' = triples
                      /\ world' = w1
                      /\ digs' = digs
                      /\ objOf' = o1
                      /\ IF pos # path1[Len(path1)]
                         THEN /\ raised' = "AssertionError"
                              /\ tasks' = [tasks EXCEPT ![t].interrupted = FALSE,
                                                        ![t].replace = R1, ![t].path = path1]
                              /\ calls' = c2
                              /\ pos' = pos
                         ELSE IF path2 = <<>>
                         THEN /\ raised' = "IndexError"
                              /\ tasks' = [tasks EXCEPT ![t].interrupted = FALSE,
                                                        ![t].replace = R1, ![t].path = path2]
                              /\ calls' = c2
                              /\ pos' = pos
                         ELSE LET step == Minus(path2[Len(path2)], pos)
                              IN  /\ raised' = raised
                                  /\ tasks' = [tasks EXCEPT ![t].interrupted = FALSE,
                                                            ![t].replace = R1, ![t].path = path2]
                                  /\ pos' = step_fn(pos, step)
                                  /\ calls' = c2 \o << <<"move", step>> >>

-----------------------------------------------------------------------------
(* Destroy *)

DIG_REACH == 3
DugChat == "I finished digging this."
NoPathChat == "There's no path, so I'm giving up"

\* util.strip_idmeta
strip_idmeta(blocks) == {e[1] : e \in blocks}

\* Destroy.__init__, "is it destroying a whole block object? if so, save its
\* tags": first is next(iter(self.xyz_remaining)).
DestroyTriples(o, tr, remaining, first) ==
    LET mem == ObjAt(o, first)
    IN  IF mem # 0 /\ ObjBlocks(o, mem) \subseteq remaining
        THEN get_triples(tr, mem, "has_tag") \cup get_triples(tr, mem, "has_name")
             \cup get_triples(tr, mem, "has_colour")
        ELSE {}

\* Destroy.__init__
Destroy(schematic, dig_message, parent, o, tr, first) ==
    [kind |-> "Destroy", interrupted |-> FALSE, finished |-> FALSE, parent |-> parent,
     schematic |-> schematic, xyz_remaining |-> strip_idmeta(schematic),
     dig_message |-> dig_message,
     destroyed_block_object_triples |-> DestroyTriples(o, tr, strip_idmeta(schematic), first)]

\* Destroy.get_target: the cells it may return, the nearest of those a route
\* leads to (Python's sort leaves the order of equally near cells open).
Reachable(p, c) == astar(p, c, 2) # None
\* get_target without the search for a route: the nearest cell, reachable or not
get_target_nearest(p, remaining) ==
    {c \in remaining : \A d \in remaining : manhat_dist(p, c) <= manhat_dist(p, d)}
get_target(p, remaining) ==
    LET ok == {c \in remaining : Reachable(p, c)}
    IN  {c \in ok : \A d \in ok : manhat_dist(p, c) <= manhat_dist(p, d)}
\* the astar calls get_target makes before it returns target: one for every
\* nearer cell, all without a route, then the one for target
TargetCalls(p, remaining, target) ==
    LET nearer == SeqOf({c \in remaining : manhat_dist(p, c) < manhat_dist(p, target)})
    IN  [i \in 1..Len(nearer) |-> <<"astar", nearer[i]>>] \o << <<"astar", target>> >>
NoTargetCalls(remaining) ==
    LET all == SeqOf(remaining) IN [i \in 1..Len(all) |-> <<"astar", all[i]>>]

\* The test for being done, off by one: done with one cell left.
DestroyDoneEarly(remaining) == Cardinality(remaining) <= 1

\* Destroy.step, "if len(self.xyz_remaining) == 0"
DestroyDone(remaining) == remaining = {}

\* Destroy.step
StepDestroy ==
    /\ CanStep("Destroy")
    /\ LET t == Top
           d == tasks[t]
       IN
       /\ stepped' = t
       /\ UNCHANGED <<triples, unreachable, placeModes, raised, nEnv, phase, pos>>
       /\ IF DestroyDone(d.xyz_remaining)
          THEN /\ tasks' = [tasks EXCEPT ![t].interrupted = FALSE, ![t].finished = TRUE]
               /\ calls' = IF d.dig_message THEN << <<"chat", DugChat>> >> ELSE <<>>
               /\ chats' = IF d.dig_message THEN chats \cup {<<t, DugChat>>} ELSE chats
               /\ UNCHANGED <<world, stack, objOf, digs>>
          ELSE IF get_target(pos, d.xyz_remaining) = {}
          THEN /\ tasks' = [tasks EXCEPT ![t].interrupted = FALSE, ![t].finished = TRUE]
               /\ calls' = NoTargetCalls(d.xyz_remaining) \o << <<"chat", NoPathChat>> >>
               /\ chats' = chats \cup {<<t, NoPathChat>>}
               /\ UNCHANGED <<world, stack, objOf, digs>>
          ELSE \E target \in get_target(pos, d.xyz_remaining) :
               IF manhat_dist(pos, target) <= DIG_REACH
               THEN /\ world' = dig(world, target)
                    /\ digs' = Dug(digs, {target})
                    /\ objOf' = Forget(objOf, {target})
                    /\ tasks' = [tasks EXCEPT ![t].interrupted = FALSE,
                                              ![t].xyz_remaining = @ \ {target}]
                    /\ calls' = TargetCalls(pos, d.xyz_remaining, target)
                                  \o << <<"dig", target>> >>
                    /\ UNCHANGED <<stack, chats>>
               ELSE /\ Len(tasks) < MaxTasks
                    /\ tasks' = Append([tasks EXCEPT ![t].interrupted = FALSE],
                                       Move(target, DIG_REACH, t))
                    /\ stack' = Append(stack, NewId)
                    /\ calls' = TargetCalls(pos, d.xyz_remaining, target)
                                  \o << <<"push", NewId>> >>
                    /\ UNCHANGED <<world, objOf, digs, chats>>

-----------------------------------------------------------------------------
(* Build *)

PLACE_REACH == 3
BuiltChat == "I finished building this"
FilledChat == "I finished filling this"
SkipChat == "I'm skipping a block because I can't place it. Maybe something is in the way."

\* The relative cells of a grid of the given shape <<sx, sy, sz>>.
RelCells(shape) == (0..(shape[1] - 1)) \X (0..(shape[2] - 1)) \X (0..(shape[3] - 1))

\* build_utils.blocks_list_to_npy: the dense grid of a list of (cell, block)
\* pairs, moved to its minimum corner; cells the list does not name hold air.
blocks_list_to_npy(blocks) ==
    LET cs == strip_idmeta(blocks)
        lo == MinCorner(cs)
        hi == MaxCorner(cs)
        shape == <<hi[1] - lo[1] + 1, hi[2] - lo[2] + 1, hi[3] - lo[3] + 1>>
    IN  [r \in RelCells(shape) |->
            IF \E e \in blocks : e[1] = Plus(r, lo)
            THEN (CHOOSE e \in blocks : e[1] = Plus(r, lo))[2]
            ELSE AIR]

\* build_utils.npy_to_blocks_list: the (cell, block) pairs of a grid at an
\* origin, air left out.
npy_to_blocks_list(grid, origin) ==
    {<<Plus(r, origin), grid[r]>> : r \in {q \in DOMAIN grid : grid[q] # AIR}}

\* The order of np.argwhere and of npy_to_blocks_list: y, then z, then x.
YzxLess(a, b) ==
    \/ a[2] < b[2]
    \/ a[2] = b[2] /\ a[3] < b[3]
    \/ a[2] = b[2] /\ a[3] = b[3] /\ a[1] < b[1]
\* npy_to_blocks_list(...)[0]
FirstCell(cs) == CHOOSE c \in cs : \A d \in cs \ {c} : YzxLess(c, d)

\* perception.ground_height(agent, origin, 0)[0, 0]: the height of the lowest
\* cell of the column of origin with only passable cells from it upwards.
ground_height(w, origin) ==
    Min({y \in 0..(MaxY + 1) :
            \A yy \in y..MaxY : get_block(w, <<origin[1], yy, origin[3]>>) \in PASSABLE_BLOCKS})

\* Build.__init__
Build(blocks_list, origin, embed, force, verbose, fill_message, schematic_tags, parent, w) ==
    LET npy == blocks_list_to_npy(blocks_list)
        schematic == [r \in DOMAIN npy |-> BUILD_BLOCK_REPLACE_MAP[npy[r]]]
        snap == ~force /\ ~embed /\ \E r \in DOMAIN schematic : schematic[r] \in {GRASS, DIRT}
    IN  [kind |-> "Build", interrupted |-> FALSE, finished |-> FALSE, parent |-> parent,
         task_data |-> [blocks_list |-> blocks_list],
         embed |-> embed, force |-> force, verbose |-> verbose,
         fill_message |-> fill_message, schematic_tags |-> schematic_tags,
         schematic |-> schematic,
         origin |-> IF snap THEN <<origin[1], ground_height(w, origin), origin[3]>> ELSE origin,
         attempts |-> [r \in DOMAIN schematic |-> 3],
         giving_up_message_sent |-> FALSE,
         old_blocks_list |-> <<>>, old_origin |-> <<>>, new_blocks |-> <<>>]

\* Build.step, "get blocks occupying build area"
Current(b, w) == [r \in DOMAIN b.schematic |-> get_block(w, Plus(r, b.origin))]

\* The diff mask with the interchangeable pairs applied as "either type is of
\* the pair" instead of "both are".
DiffEitherOfPair(b, current) ==
    {r \in DOMAIN b.schematic :
        /\ current[r] # b.schematic[r]
        /\ b.attempts[r] > 0
        /\ current[r] \notin BUILD_IGNORE_BLOCKS
        /\ b.embed => b.schematic[r] # AIR
        /\ \A pair \in BUILD_INTERCHANGEABLE_PAIRS :
              current[r] \notin pair /\ b.schematic[r] \notin pair}

\* The diff mask without the test of the attempts counter.
DiffNoBudget(b, current) ==
    {r \in DOMAIN b.schematic :
        /\ current[r] # b.schematic[r]
        /\ current[r] \notin BUILD_IGNORE_BLOCKS
        /\ b.embed => b.schematic[r] # AIR
        /\ \A pair \in BUILD_INTERCHANGEABLE_PAIRS :
              current[r] \notin pair \/ b.schematic[r] \notin pair}

\* The diff mask that does not leave out the air of an embedded schematic.
DiffNoEmbed(b, current) ==
    {r \in DOMAIN b.schematic :
        /\ current[r] # b.schematic[r]
        /\ b.attempts[r] > 0
        /\ current[r] \notin BUILD_IGNORE_BLOCKS
        /\ \A pair \in BUILD_INTERCHANGEABLE_PAIRS :
              current[r] \notin pair \/ b.schematic[r] \notin pair}

\* Build.step, "are we done?": the diff mask, as the set of its cells.
Diff(b, current) ==
    {r \in DOMAIN b.schematic :
        /\ current[r] # b.schematic[r]
        /\ b.attempts[r] > 0
        /\ current[r] \notin BUILD_IGNORE_BLOCKS
        /\ b.embed => b.schematic[r] # AIR
        /\ \A pair \in BUILD_INTERCHANGEABLE_PAIRS :
              current[r] \notin pair \/ b.schematic[r] \notin pair}

\* Build.step that finds no block to remove first.
RemoveMaskEmpty(diff, current) == {}

\* Build.step, "blocks that would need to be removed"
RemoveMask(diff, current) == {r \in diff : current[r] # AIR}

\* The sort key of attempts read as a plain number: fewest attempts first.
AttemptsKeyAscending(a) == a
\* The sort key -self.attempts[...]: the negation of an unsigned byte.
AttemptsKey(a) == (256 - a) % 256

\* Build.get_next_target: four stable sorts, the last one made ranking first.
InFootprint(b, p, r) == Plus(r, b.origin) \in {p, Plus(p, UP)}
TargetLess(b, p, r, q) ==
    LET fr == IF InFootprint(b, p, r) THEN 1 ELSE 0
        fq == IF InFootprint(b, p, q) THEN 1 ELSE 0
        dr == manhat_dist(Plus(r, b.origin), p)
        dq == manhat_dist(Plus(q, b.origin), p)
        ar == AttemptsKey(b.attempts[r])
        aq == AttemptsKey(b.attempts[q])
    IN  \/ fr < fq
        \/ fr = fq /\ r[2] < q[2]
        \/ fr = fq /\ r[2] = q[2] /\ ar < aq
        \/ fr = fq /\ r[2] = q[2] /\ ar = aq /\ dr < dq
        \/ fr = fq /\ r[2] = q[2] /\ ar = aq /\ dr = dq /\ YzxLess(r, q)
get_next_target(b, p, diff) == CHOOSE r \in diff : \A q \in diff \ {r} : TargetLess(b, p, r, q)

\* Build.step_any_dir: the directions in the order tried, the walkable test,
\* and the first walkable direction, 0 if there is none.
ANY_DIRS == << <<0, 0, 1>>, <<0, 0, -1>>, <<1, 0, 0>>, <<-1, 0, 0>>, <<0, 1, 0>>, <<0, -1, 0>> >>
Walkable(w, p, d) ==
    /\ get_block(w, Plus(p, d)) \in PASSABLE_BLOCKS
    /\ get_block(w, Plus(Plus(p, d), UP)) \in PASSABLE_BLOCKS
AnyDirLast(w, p) ==
    LET good == {i \in 1..6 : Walkable(w, p, ANY_DIRS[i])}
    IN  IF good = {} THEN 0 ELSE Max(good)
AnyDir(w, p) ==
    LET good == {i \in 1..6 : Walkable(w, p, ANY_DIRS[i])}
    IN  IF good = {} THEN 0 ELSE Min(good)

\* The decrement of an attempts counter by two.
DecrementTwice(a) == (a - 2) % 256

\* Build.step, "self.attempts[tuple(yzx)] -= 1" on an unsigned 8-bit counter
Decrement(a) == (a - 1) % 256

\* Build.step, "save state for undo()"
Snapshot(b, current) ==
    IF b.old_blocks_list # <<>> THEN b
    ELSE LET old == npy_to_blocks_list(current, b.origin)
         IN  [b EXCEPT !.old_blocks_list = <<old>>,
                       !.old_origin = IF old = {} THEN <<>>
                                      ELSE <<MinCorner(strip_idmeta(old))>>]

\* util.fill_idmeta: the cells with the blocks the world holds there
fill_idmeta(w, cs) == {<<c, get_block(w, c)>> : c \in cs}

\* Build.finish: the triples it adds to the block object memid
FinishTriples(b, memid) ==
    {<<<<"obj", memid>>, e[1], e[2]>> : e \in b.schematic_tags}
    \cup {<<<<"obj", memid>>, "has_tag", e[2]>> : e \in {x \in b.schematic_tags : x[1] = "has_name"}}
FinishChats(b, t) ==
    (IF b.verbose THEN {<<t, BuiltChat>>} ELSE {})
    \cup (IF b.fill_message THEN {<<t, FilledChat>>} ELSE {})
FinishCalls(b) ==
    (IF b.verbose THEN << <<"chat", BuiltChat>> >> ELSE <<>>)
    \o (IF b.fill_message THEN << <<"chat", FilledChat>> >> ELSE <<>>)

\* The notice sent whenever a counter reaches 0.
SkipNoticeEvery(left, sent) == left = 0

\* Build.step, "if self.attempts[tuple(yzx)] == 0 and not
\* self.giving_up_message_sent": whether the step sends the notice.
SkipNotice(left, sent) == left = 0 /\ ~sent

\* Build.step
StepBuild ==
    /\ CanStep("Build")
    /\ LET t == Top
           current == Current(tasks[t], world)
           b == [Snapshot(tasks[t], current) EXCEPT !.interrupted = FALSE]
           diff == Diff(b, current)
           remove == RemoveMask(diff, current)
           xyzs == {Plus(r, b.origin) : r \in remove}
       IN
       /\ stepped' = t
       /\ UNCHANGED <<unreachable, placeModes, nEnv, phase>>
       /\ IF diff = {}
          THEN \* finish
               LET sb == npy_to_blocks_list(b.schematic, b.origin)
                   memid == IF sb = {} THEN 0 ELSE ObjAt(objOf, FirstCell(strip_idmeta(sb)))
               IN  /\ UNCHANGED <<world, pos, stack, objOf, digs>>
                   /\ IF memid = 0
                      THEN /\ raised' = "IndexError"
                           /\ tasks' = [tasks EXCEPT ![t] = b]
                           /\ calls' = <<>>
                           /\ UNCHANGED <<triples, chats>>
                      ELSE /\ raised' = raised
                           /\ tasks' = [tasks EXCEPT ![t] = [b EXCEPT !.finished = TRUE]]
                           /\ triples' = triples \cup FinishTriples(b, memid)
                           /\ chats' = chats \cup FinishChats(b, t)
                           /\ calls' = FinishCalls(b)
          ELSE IF xyzs # {}
          THEN \* destroy any blocks in the way first
               /\ Len(tasks) < MaxTasks
               /\ \E first \in xyzs :
                     tasks' = Append([tasks EXCEPT ![t] = b],
                                     Destroy(fill_idmeta(world, xyzs), FALSE, t,
                                             objOf, triples, first))
               /\ stack' = Append(stack, NewId)
               /\ calls' = << <<"push", NewId>> >>
               /\ UNCHANGED <<world, pos, triples, objOf, digs, chats, raised>>
          ELSE LET r == get_next_target(b, pos, diff)
                   idm == b.schematic[r]
                   target == Plus(r, b.origin)
               IN
               IF target \in {pos, Plus(pos, UP)}
               THEN \* step_any_dir
                    LET i == AnyDir(world, pos)
                    IN  /\ tasks' = [tasks EXCEPT ![t] = b]
                        /\ UNCHANGED <<world, stack, triples, objOf, digs, chats>>
                        /\ IF i = 0
                           THEN /\ raised' = "Can't step in any dir"
                                /\ pos' = pos
                                /\ calls' = <<>>
                           ELSE /\ raised' = raised
                                /\ pos' = step_fn(pos, ANY_DIRS[i])
                                /\ calls' = << <<"move", ANY_DIRS[i]>> >>
               ELSE IF manhat_dist(pos, target) <= PLACE_REACH
               THEN \* block is within reach
                    \E o \in placeModes :
                    LET w1 == IF current[r] # AIR THEN dig(world, target) ELSE world
                        w2 == IF idm # AIR THEN place_block(w1, target, idm, o) ELSE w1
                        placed == idm # AIR /\ PlaceReturns(o)
                        seen == placed /\ get_block(w2, target) = idm
                        left == Decrement(b.attempts[r])
                        skip == SkipNotice(left, b.giving_up_message_sent)
                    IN  /\ world' = w2
                        /\ digs' = IF current[r] # AIR THEN Dug(digs, {target}) ELSE digs
                        /\ objOf' = LET o1 == IF current[r] # AIR THEN Forget(objOf, {target})
                                              ELSE objOf
                                    IN  IF seen THEN Perceive(o1, target, t) ELSE o1
                        /\ tasks' = [tasks EXCEPT ![t] =
                              [b EXCEPT !.attempts[r] = left,
                                        !.new_blocks = IF placed THEN Append(@, <<target, idm>>)
                                                       ELSE @,
                                        !.giving_up_message_sent = @ \/ skip]]
                        /\ calls' = (IF current[r] # AIR THEN << <<"dig", target>> >> ELSE <<>>)
                                    \o (IF idm # AIR
                                        THEN << <<"place", target, idm, PlaceReturns(o)>> >>
                                        ELSE <<>>)
                                    \o (IF skip THEN << <<"chat", SkipChat>> >> ELSE <<>>)
                        /\ chats' = IF skip THEN chats \cup {<<t, SkipChat>>} ELSE chats
                        /\ UNCHANGED <<pos, stack, triples, raised>>
               ELSE \* too far to place; move first
                    /\ Len(tasks) < MaxTasks
                    /\ tasks' = Append([tasks EXCEPT ![t] = b], Move(target, PLACE_REACH, t))
                    /\ stack' = Append(stack, NewId)
                    /\ calls' = << <<"push", NewId>> >>
                    /\ UNCHANGED <<world, pos, triples, objOf, digs, chats, raised>>

-----------------------------------------------------------------------------
(* Build.undo, Destroy.undo and Undo *)

RemoveChat == "ok I will remove it."
RebuildChat == "ok I will build it back."

\* The list new_blocks as the set of its (cell, block) pairs.
NewBlocks(b) == {b.new_blocks[i] : i \in 1..Len(b.new_blocks)}

\* Build.undo with the two pushes in the other order.
BuildUndoDestroyFirst(b, k, w, o, tr, first) ==
    (IF b.new_blocks # <<>>
     THEN << Destroy(NewBlocks(b), FALSE, k, o, tr, first) >>
     ELSE <<>>)
    \o (IF b.old_blocks_list[1] # {}
        THEN << Build(b.old_blocks_list[1], b.old_origin[1], b.embed, TRUE, FALSE, FALSE,
                      {}, k, w) >>
        ELSE <<>>)

\* Build.undo: the tasks it pushes for the Build with memid k, a forced Build
\* of the snapshot and then a Destroy of the blocks the Build placed.
BuildUndo(b, k, w, o, tr, first) ==
    (IF b.old_blocks_list[1] # {}
     THEN << Build(b.old_blocks_list[1], b.old_origin[1], b.embed, TRUE, FALSE, FALSE,
                   {}, k, w) >>
     ELSE <<>>)
    \o (IF b.new_blocks # <<>>
        THEN << Destroy(NewBlocks(b), FALSE, k, o, tr, first) >>
        ELSE <<>>)

\* build_utils.to_relative_pos: the list moved to its minimum corner, and
\* that corner.
to_relative_pos(blocks) ==
    LET origin == MinCorner(strip_idmeta(blocks))
    IN  <<{<<Minus(e[1], origin), e[2]>> : e \in blocks}, origin>>

\* Destroy.undo that hands no tags to the Build.
DestroyUndoNoTags(d, k, w) ==
    LET rel == to_relative_pos(d.schematic)
    IN  << Build(rel[1], rel[2], FALSE, TRUE, FALSE, FALSE, {}, k, w) >>

\* Destroy.undo: the Build it pushes for the Destroy with memid k.
DestroyUndo(d, k, w) ==
    LET schematic_tags == {<<x[2], x[3]>> : x \in d.destroyed_block_object_triples}
        rel == to_relative_pos(d.schematic)
    IN  << Build(rel[1], rel[2], FALSE, TRUE, FALSE, FALSE, schematic_tags, k, w) >>

\* Fill.undo and Dig.undo hand the call on to the task they pushed, if any.
UndoTarget(k) ==
    IF tasks[k].kind = "Fill" THEN tasks[k].build_task
    ELSE IF tasks[k].kind = "Dig" THEN tasks[k].destroy_task
    ELSE k

\* Undo.__init__
Undo(memid, parent) ==
    [kind |-> "Undo", interrupted |-> FALSE, finished |-> FALSE, parent |-> parent,
     to_undo_memid |-> memid]

PushCalls(n) == [i \in 1..n |-> <<"push", Len(tasks) + i>>]
PushIds(n) == [i \in 1..n |-> Len(tasks) + i]

\* Undo.step
StepUndo ==
    /\ CanStep("Undo")
    /\ LET t == Top
           k == UndoTarget(tasks[t].to_undo_memid)
       IN
       /\ stepped' = t
       /\ UNCHANGED <<world, pos, triples, objOf, unreachable, placeModes, digs, nEnv, phase>>
       /\ IF tasks[tasks[t].to_undo_memid].kind \notin {"Build", "Destroy", "Fill", "Dig"}
          THEN \* the task has no undo
               /\ raised' = "AttributeError"
               /\ calls' = <<>>
               /\ UNCHANGED <<tasks, stack, chats>>
          ELSE IF k = 0
          THEN /\ tasks' = [tasks EXCEPT ![t].finished = TRUE]
               /\ calls' = <<>>
               /\ UNCHANGED <<stack, chats, raised>>
          ELSE IF tasks[k].kind = "Build" /\ tasks[k].old_blocks_list = <<>>
          THEN \* len(None)
               /\ raised' = "TypeError"
               /\ calls' = << <<"chat", RemoveChat>> >>
               /\ chats' = chats \cup {<<k, RemoveChat>>}
               /\ UNCHANGED <<tasks, stack>>
          ELSE \E first \in IF tasks[k].kind = "Build" /\ tasks[k].new_blocks # <<>>
                            THEN strip_idmeta(NewBlocks(tasks[k])) ELSE {<<0, 0, 0>>} :
               LET msg == IF tasks[k].kind = "Build" THEN RemoveChat ELSE RebuildChat
                   pushes == IF tasks[k].kind = "Build"
                             THEN BuildUndo(tasks[k], k, world, objOf, triples, first)
                             ELSE DestroyUndo(tasks[k], k, world)
               IN  /\ Len(tasks) + Len(pushes) <= MaxTasks
                   /\ tasks' = [tasks EXCEPT ![t].finished = TRUE] \o pushes
                   /\ stack' = stack \o PushIds(Len(pushes))
                   /\ calls' = << <<"chat", msg>> >> \o PushCalls(Len(pushes))
                   /\ chats' = chats \cup {<<k, msg>>}
                   /\ raised' = raised

-----------------------------------------------------------------------------
(* Fill, Dig, Spawn and Loop *)

\* Fill.__init__
Fill(schematic, block_idm, parent) ==
    [kind |-> "Fill", interrupted |-> FALSE, finished |-> FALSE, parent |-> parent,
     schematic |-> schematic, block_idm |-> block_idm, build_task |-> 0]

\* Fill.step
StepFill ==
    /\ CanStep("Fill")
    /\ Len(tasks) < MaxTasks
    /\ LET t == Top
           f == tasks[t]
           origin == MinCorner(f.schematic)
           blocks_list == {<<c, f.block_idm>> : c \in f.schematic}
       IN  /\ tasks' = Append([tasks EXCEPT ![t].build_task = NewId, ![t].finished = TRUE],
                              Build(blocks_list, origin, TRUE, TRUE, FALSE, TRUE, {}, 0, world))
           /\ stack' = Append(stack, NewId)
           /\ calls' = << <<"push", NewId>> >>
           /\ stepped' = t
    /\ UNCHANGED <<world, pos, triples, objOf, unreachable, placeModes, chats, digs,
                   raised, nEnv, phase>>

\* Dig.__init__
Dig(origin, length, width, depth, parent) ==
    [kind |-> "Dig", interrupted |-> FALSE, finished |-> FALSE, parent |-> parent,
     origin |-> origin, length |-> length, width |-> width, depth |-> depth,
     destroy_task |-> 0]

\* Dig.step, the cells poss: the volume from the origin, its top north-west
\* corner, one layer deeper when the top layer is passable throughout.
DigCells(w, d) ==
    LET mx == d.origin[1]
        My == d.origin[2]
        mz == d.origin[3]
        Mx == mx + (d.width - 1)
        Mz == mz + (d.length - 1)
        top == (mx..Mx) \X {My} \X (mz..Mz)
        my == IF \A c \in top : get_block(w, c) \in PASSABLE_BLOCKS
              THEN My - (d.depth - 1) - 1 ELSE My - (d.depth - 1)
    IN  (mx..Mx) \X (my..My) \X (mz..Mz)

\* Dig.step
StepDig ==
    /\ CanStep("Dig")
    /\ Len(tasks) < MaxTasks
    /\ LET t == Top
           poss == DigCells(world, tasks[t])
       IN  /\ \E first \in poss :
                 tasks' = Append([tasks EXCEPT ![t].destroy_task = NewId, ![t].finished = TRUE],
                                 Destroy(fill_idmeta(world, poss), TRUE, t, objOf, triples,
                                         first))
           /\ stack' = Append(stack, NewId)
           /\ calls' = << <<"push", NewId>> >>
           /\ stepped' = t
    /\ UNCHANGED <<world, pos, triples, objOf, unreachable, placeModes, chats, digs,
                   raised, nEnv, phase>>

\* Spawn.PLACE_REACH
SPAWN_PLACE_REACH == 3

\* Spawn.__init__
Spawn(object_idm, p, parent) ==
    [kind |-> "Spawn", interrupted |-> FALSE, finished |-> FALSE, parent |-> parent,
     object_idm |-> object_idm, pos |-> p]

\* Spawn.step, the triples it adds when the memory knows the new mob: the
\* task's effect, and the effect of the chat that asked for the task.
SpawnTriples(tr, t) ==
    LET mob == <<"mob", t>>
        chat_mem_triples == {x \in tr : x[2] = "chat_effect_" /\ x[3] = <<"task", t>>}
    IN  {<<<<"task", t>>, "task_effect_", mob>>}
        \cup (IF chat_mem_triples = {} THEN {}
              ELSE {<<(CHOOSE x \in chat_mem_triples : TRUE)[1], "chat_effect_", mob>>})

\* Spawn.step that finishes only when it finds the entity it spawned.
SpawnFinishedIfFound(found) == found

\* Spawn.step, its last line: finished, with the entity found or not.
SpawnFinished(found) == TRUE

\* Spawn.step with a push that puts the Move under the Spawn on the stack.
StepSpawnUnder ==
    /\ CanStep("Spawn")
    /\ LET t == Top
           sp == tasks[t]
       IN
       /\ stepped' = t
       /\ UNCHANGED <<world, objOf, unreachable, placeModes, chats, digs, raised, nEnv, phase>>
       /\ IF manhat_dist(pos, sp.pos) > SPAWN_PLACE_REACH
          THEN /\ Len(tasks) < MaxTasks
               /\ tasks' = Append(tasks, Move(sp.pos, SPAWN_PLACE_REACH, t))
               /\ stack' = <<NewId>> \o stack
               /\ calls' = << <<"push", NewId>> >>
               /\ UNCHANGED <<pos, triples>>
          ELSE \E o \in placeModes : \E found \in BOOLEAN :
               /\ pos' = IF pos = sp.pos THEN step_fn(pos, <<0, 0, -1>>) ELSE pos
               /\ calls' = (IF pos = sp.pos THEN << <<"move", <<0, 0, -1>> >> >> ELSE <<>>)
                           \o << <<"place", Plus(sp.pos, UP), sp.object_idm, PlaceReturns(o)>> >>
               /\ triples' = IF found THEN triples \cup SpawnTriples(triples, t) ELSE triples
               /\ tasks' = [tasks EXCEPT ![t].finished = SpawnFinished(found)]
               /\ stack' = stack

\* Spawn.step
StepSpawn ==
    /\ CanStep("Spawn")
    /\ LET t == Top
           sp == tasks[t]
       IN
       /\ stepped' = t
       /\ UNCHANGED <<world, objOf, unreachable, placeModes, chats, digs, raised, nEnv, phase>>
       /\ IF manhat_dist(pos, sp.pos) > SPAWN_PLACE_REACH
          THEN /\ Len(tasks) < MaxTasks
               /\ tasks' = Append(tasks, Move(sp.pos, SPAWN_PLACE_REACH, t))
               /\ stack' = Append(stack, NewId)
               /\ calls' = << <<"push", NewId>> >>
               /\ UNCHANGED <<pos, triples>>
          ELSE \E o \in placeModes : \E found \in BOOLEAN :
               /\ pos' = IF pos = sp.pos THEN step_fn(pos, <<0, 0, -1>>) ELSE pos
               /\ calls' = (IF pos = sp.pos THEN << <<"move", <<0, 0, -1>> >> >> ELSE <<>>)
                           \o << <<"place", Plus(sp.pos, UP), sp.object_idm, PlaceReturns(o)>> >>
               /\ triples' = IF found THEN triples \cup SpawnTriples(triples, t) ELSE triples
               /\ tasks' = [tasks EXCEPT ![t].finished = SpawnFinished(found)]
               /\ stack' = stack

\* Loop.__init__
Loop(new_tasks_fn, parent) ==
    [kind |-> "Loop", interrupted |-> FALSE, finished |-> FALSE, parent |-> parent,
     new_tasks_fn |-> new_tasks_fn]

\* The task factories of the scenarios: the lists new_tasks_fn() may return
\* to the Loop with memid t.
new_tasks_fn(fn, t) ==
    IF fn = "nothing" THEN {<<>>}
    ELSE IF fn = "move" THEN {<< Move(c, 1, t) >> : c \in {<<0, 0, 0>>, <<MaxX, 0, 0>>}}
    ELSE {<<>>, << Spawn(50, <<0, 0, 0>>, t), Move(<<MaxX, 0, 0>>, 1, t) >>}

\* Loop.step that pushes what the factory returns whatever the stop
\* condition says.
LoopPushesAlways(stop, new) == new

\* Loop.step: the tasks it pushes.
LoopPushes(stop, new) == IF stop THEN <<>> ELSE new

\* Loop.step; stop is what stop_condition.check() returns.
StepLoop ==
    /\ CanStep("Loop")
    /\ \E stop \in BOOLEAN : \E new \in new_tasks_fn(tasks[Top].new_tasks_fn, Top) :
          LET pushes == LoopPushes(stop, new)
          IN  /\ Len(tasks) + Len(pushes) <= MaxTasks
              /\ tasks' = [tasks EXCEPT ![Top].finished = stop] \o pushes
              /\ stack' = stack \o PushIds(Len(pushes))
              /\ calls' = << <<"check", stop>> >>
                          \o (IF stop THEN <<>> ELSE << <<"new_tasks", Len(new)>> >>)
                          \o PushCalls(Len(pushes))
    /\ stepped' = Top
    /\ UNCHANGED <<world, pos, triples, objOf, unreachable, placeModes, chats, digs,
                   raised, nEnv, phase>>

-----------------------------------------------------------------------------
(* The scheduler and the world around the agent. *)

\* The scheduler takes a finished task off the top of the stack.
Pop ==
    /\ raised = "none"
    /\ stack # <<>>
    /\ tasks[Top].finished
    /\ stack' = SubSeq(stack, 1, Len(stack) - 1)
    /\ stepped' = 0
    /\ calls' = <<>>
    /\ UNCHANGED <<world, pos, tasks, triples, objOf, unreachable, placeModes, digs,
                   raised, nEnv, phase, chats>>

Starts == {p \in Ground : ValidPos(p)}
\* the cell sets of the scenarios: every second cell of the ground row, the
\* first n of them
CellSet(n) == {c \in Ground : c[1] % 2 = 0 /\ c[1] < 2 * n}
CellSets == {CellSet(n) : n \in 1..MaxCells}
\* the agent starts on the first cell of the ground row or on the last
NearFar == {p \in Starts : p[1] \in {0, MaxX}}
\* the cells others change: those between the cells of the largest cell set
Changing == {c \in Ground : c[1] <= 2 * (MaxCells - 1)}

\* Someone else changes a block; the memory sees it.
WorldChange ==
    /\ raised = "none"
    /\ stack # <<>>
    /\ nEnv < MaxEnv
    /\ \E c \in Changing : \E b \in Blocks \ {world[c]} :
          /\ world' = [world EXCEPT ![c] = b]
          /\ objOf' = [objOf EXCEPT ![c] = IF b = AIR THEN 0 ELSE TerrainObj]
    /\ nEnv' = nEnv + 1
    /\ stepped' = 0
    /\ calls' = <<>>
    /\ UNCHANGED <<pos, tasks, stack, triples, unreachable, placeModes, chats, digs,
                   raised, phase>>

\* Task.interrupt, called on a task of the stack.
Interrupt ==
    /\ raised = "none"
    /\ \E i \in 1..Len(stack) :
          /\ ~tasks[stack[i]].interrupted
          /\ tasks' = [tasks EXCEPT ![stack[i]].interrupted = TRUE]
    /\ UNCHANGED <<world, pos, stack, triples, objOf, unreachable, placeModes, calls,
                   chats, stepped, digs, raised, nEnv, phase>>

-----------------------------------------------------------------------------
(* Scenarios. *)

NoObjects == [c \in Cells |-> 0]
NoDigs == [c \in Cells |-> 0]
\* the world with block b at the cells of T and air elsewhere
WorldWith(T, b) == [c \in Region |-> IF c \in T THEN b ELSE AIR]

\* the memory of a world nothing was built in
Terrain(w) == [c \in Cells |-> IF w[c] # AIR THEN TerrainObj ELSE 0]

\* What the scenarios share: nothing has run yet.
Fresh ==
    /\ calls = <<>>
    /\ chats = {}
    /\ stepped = 0
    /\ digs = NoDigs
    /\ raised = "none"
    /\ nEnv = 0
    /\ phase = 0

\* A Destroy of the stone blocks at the cells T, some of them unreachable.
InitDestroy ==
    /\ \E T \in CellSets :
          /\ world = WorldWith(T, STONE)
          /\ unreachable \in SUBSET T
          /\ \E first \in T : \E dig_message \in BOOLEAN :
                tasks = << Destroy(BlocksOf(world, T), dig_message, 0, Terrain(world), {},
                                   first) >>
    /\ pos \in Starts
    /\ stack = <<1>>
    /\ triples = {}
    /\ objOf = Terrain(world)
    /\ placeModes = {"ok"}
    /\ Fresh

NextDestroy == StepDestroy \/ StepMove \/ Pop

\* The scheduler keeps stepping the top of the stack.
SpecDestroy == InitDestroy /\ [][NextDestroy]_vars /\ WF_vars(NextDestroy)

\* A Build of dirt at the cells T of the ground row of an empty world, with
\* placements that may fail and a world that others change.
BuildModes == {<<FALSE, FALSE>>, <<TRUE, TRUE>>}
InitBuild ==
    /\ world = WorldWith({}, AIR)
    /\ \E T \in CellSets : \E m \in BuildModes :
          /\ unreachable \in {{}, {FirstCell(T)}}
          /\ tasks = << Build({<<c, DIRT>> : c \in T}, MinCorner(T), m[1], m[2],
                              TRUE, FALSE, {}, 0, world) >>
    /\ pos \in NearFar
    /\ stack = <<1>>
    /\ triples = {}
    /\ objOf = NoObjects
    /\ placeModes = {"ok", "fail"}
    /\ Fresh

NextBuild == StepBuild \/ StepDestroy \/ StepMove \/ Pop \/ WorldChange

SpecBuild == InitBuild /\ [][NextBuild]_vars

\* A Move to a cell of the ground row, with or without a route to it, in a
\* world with stone on some cells of the ground row.
Approxes == {0, 1, PLACE_REACH}
InitMove ==
    /\ \E T \in CellSets \cup {{}} : world = WorldWith(T, STONE)
    /\ \E target \in Ground : \E approx \in Approxes :
          /\ unreachable \in {{}, {target}}
          /\ tasks = << Move(target, approx, 0) >>
    /\ pos \in Starts
    /\ stack = <<1>>
    /\ triples = {}
    /\ objOf = Terrain(world)
    /\ placeModes = {"ok", "fail"}
    /\ Fresh

NextMove == StepMove \/ Pop

SpecMove == InitMove /\ [][NextMove]_vars

\* A Loop over one of the task factories.
InitLoop ==
    /\ world = WorldWith({}, AIR)
    /\ \E fn \in {"nothing", "move", "spawn"} : tasks = << Loop(fn, 0) >>
    /\ pos \in Starts
    /\ stack = <<1>>
    /\ triples = {}
    /\ objOf = NoObjects
    /\ unreachable = {}
    /\ placeModes = {"ok"}
    /\ Fresh

NextLoop == StepLoop \/ StepSpawn \/ StepMove \/ Pop

SpecLoop == InitLoop /\ [][NextLoop]_vars

\* One task of every kind at the bottom of the stack, the Undo with the
\* finished Destroy it is to undo, and a caller that interrupts tasks.
Roots ==
    { << Fill(CellSet(1), GRASS, 0) >>,
      << Dig(<<0, 1, 0>>, 1, 1, 1, 0) >>,
      << Spawn(50, <<0, 0, 0>>, 0) >>,
      << Loop("nothing", 0) >>,
      << Loop("move", 0) >>,
      << Move(<<0, 0, 0>>, 1, 0) >>,
      << [Destroy({<<c, STONE>> : c \in CellSet(1)}, FALSE, 0, NoObjects, {}, <<0, 0, 0>>)
             EXCEPT !.xyz_remaining = {}, !.finished = TRUE],
         Undo(1, 0) >> }

InitTasks ==
    /\ \E pre \in {AIR, STONE} :
          /\ world = WorldWith(CellSet(1), pre)
          /\ tasks \in Roots
          /\ pre = STONE => tasks[1].kind = "Fill"
    /\ pos \in NearFar
    /\ stack = <<Len(tasks)>>
    /\ triples = {}
    /\ objOf = Terrain(world)
    /\ unreachable = {}
    /\ placeModes = {"ok"}
    /\ Fresh

NextTasks ==
    \/ StepFill \/ StepDig \/ StepSpawn \/ StepLoop \/ StepUndo
    \/ StepBuild \/ StepDestroy \/ StepMove \/ Pop \/ Interrupt

SpecTasks == InitTasks /\ [][NextTasks]_vars

\* A Fill of the cells T with grass or stone: stone of the terrain stands in
\* the gaps between the cells and on the agent's way, the first cell may hold
\* dirt, and the first cell may be one the pathfinder finds no route to.
InitFill ==
    /\ \E T \in CellSets : \E block_idm \in {GRASS, STONE} : \E pre \in {AIR, DIRT} :
          /\ world = [c \in Region |->
                         IF c \in Ground /\ c[1] % 2 = 1 THEN STONE
                         ELSE IF c = FirstCell(T) THEN pre ELSE AIR]
          /\ tasks = << Fill(T, block_idm, 0) >>
          /\ unreachable \in {{}, {FirstCell(T)}}
    /\ pos \in NearFar
    /\ stack = <<1>>
    /\ triples = {}
    /\ objOf = Terrain(world)
    /\ placeModes = {"ok", "fail"}
    /\ Fresh

NextFill == StepFill \/ StepBuild \/ StepDestroy \/ StepMove \/ Pop \/ WorldChange

SpecFill == InitFill /\ [][NextFill]_vars

\* The schematics of the round trip: stone with a gap, dirt, stone next to
\* water, and grass under stone.
Schematics ==
    { {<<<<0, 0, 0>>, STONE>>, <<<<2, 0, 0>>, STONE>>},
      {<<<<0, 0, 0>>, DIRT>>},
      {<<<<0, 0, 0>>, STONE>>, <<<<1, 0, 0>>, WATER>>},
      {<<<<0, 0, 0>>, GRASS>>, <<<<0, 1, 0>>, STONE>>} }
Origins == {<<0, 0, 0>>, <<1, MaxY, 0>>}
TagSets == {{}, {<<"has_name", <<"house">>>>, <<"has_colour", <<"red">>>>}}

\* The caller of the round trip: once the Build is done it has the structure,
\* the block object of the Build, destroyed, and once that is done it has the
\* Destroy undone.  Before, the user may have tagged the structure.
Caller ==
    /\ raised = "none"
    /\ stack = <<>>
    /\ Len(tasks) < MaxTasks
    /\ phase \in {0, 1}
    /\ phase' = phase + 1
    /\ IF phase = 0
       THEN /\ ObjBlocks(objOf, 1) # {}
            /\ \E first \in ObjBlocks(objOf, 1) :
               \E tagged \in SUBSET {<<<<"obj", 1>>, "has_tag", <<"mine">>>>} :
                  /\ triples' = triples \cup tagged
                  /\ tasks' = Append(tasks, Destroy(fill_idmeta(world, ObjBlocks(objOf, 1)),
                                                    FALSE, 0, objOf, triples', first))
       ELSE /\ tasks' = Append(tasks, Undo(Len(tasks), 0))
            /\ triples' = triples
    /\ stack' = <<NewId>>
    /\ stepped' = 0
    /\ calls' = <<>>
    /\ UNCHANGED <<world, pos, objOf, unreachable, placeModes, chats, digs, raised, nEnv>>

\* A Build of a schematic at an origin in an empty world where every
\* placement succeeds and every cell can be reached.
InitUndo ==
    /\ world = WorldWith({}, AIR)
    /\ \E S \in Schematics : \E O \in Origins : \E tags \in TagSets :
          tasks = << Build(S, O, FALSE, FALSE, TRUE, FALSE, tags, 0, world) >>
    /\ pos \in NearFar
    /\ stack = <<1>>
    /\ triples = {}
    /\ objOf = NoObjects
    /\ unreachable = {}
    /\ placeModes = {"ok"}
    /\ Fresh

NextUndo == StepBuild \/ StepDestroy \/ StepUndo \/ StepMove \/ Pop \/ Caller

SpecUndo == InitUndo /\ [][NextUndo]_vars

\* A forced Build of one stone block in the cell of the agent's feet or of
\* its head.  The world is the box of cells step_any_dir looks at, around
\* the agent: stone in some of the cells next to the agent, air or water in
\* the others.
AsideRegion == (0..2) \X (0..3) \X (0..2)
AsidePos == <<1, 1, 1>>
AsideNeighbours ==
    {c \in AsideRegion : manhat_dist(c, AsidePos) = 1 \/ manhat_dist(c, Plus(AsidePos, UP)) = 1}
       \ {AsidePos, Plus(AsidePos, UP)}
InitAside ==
    /\ \E S \in SUBSET AsideNeighbours : \E open \in PASSABLE_BLOCKS :
          world = [c \in AsideRegion |->
                      IF c \in S THEN STONE
                      ELSE IF c \in AsideNeighbours THEN open ELSE AIR]
    /\ pos = AsidePos
    /\ \E target \in {pos, Plus(pos, UP)} :
          tasks = << Build({<<target, STONE>>}, target, FALSE, TRUE, FALSE, FALSE, {}, 0,
                           world) >>
    /\ stack = <<1>>
    /\ triples = {}
    /\ objOf = Terrain(world)
    /\ unreachable = {}
    /\ placeModes = {"ok"}
    /\ Fresh

NextAside == StepBuild \/ Pop

SpecAside == InitAside /\ [][NextAside]_vars

\* The caller has the Build of the scenario undone, while it is on top of
\* the stack or when it is done.
CallerUndo ==
    /\ raised = "none"
    /\ phase = 0
    /\ IF stack = <<>> THEN TRUE ELSE Top = 1
    /\ Len(tasks) < MaxTasks
    /\ phase' = 1
    /\ tasks' = Append(tasks, Undo(1, 0))
    /\ stack' = Append(stack, NewId)
    /\ stepped' = 0
    /\ calls' = <<>>
    /\ UNCHANGED <<world, pos, triples, objOf, unreachable, placeModes, chats, digs, raised,
                   nEnv>>

\* A Build of grass or stone at the cells T of a ground row that holds
\* blocks already, in a world where every placement succeeds.
InitBuildUndo ==
    /\ \E a \in Blocks \ {GRASS} : \E g \in {AIR, STONE} : \E cc \in {AIR, DIRT} :
          world = [c \in Region |->
                      IF c \notin Ground THEN AIR
                      ELSE IF c[1] = 0 THEN a
                      ELSE IF c[1] = 1 THEN g
                      ELSE IF c[1] = 2 THEN cc ELSE AIR]
    /\ \E T \in CellSets : \E m \in BuildModes : \E idm \in {GRASS, STONE} :
          tasks = << Build({<<c, idm>> : c \in T}, MinCorner(T), m[1], m[2],
                           TRUE, FALSE, {}, 0, world) >>
    /\ pos \in NearFar
    /\ stack = <<1>>
    /\ triples = {}
    /\ objOf = Terrain(world)
    /\ unreachable = {}
    /\ placeModes = {"ok"}
    /\ Fresh

NextBuildUndo == StepBuild \/ StepDestroy \/ StepMove \/ StepUndo \/ Pop \/ CallerUndo

SpecBuildUndo == InitBuildUndo /\ [][NextBuildUndo]_vars

\* A Dig of one layer, one or two cells wide, from the top row of the world:
\* its top layer holds air, water or stone over a ground of dirt.
DigOrigins == {<<0, MaxY, 0>>, <<2, MaxY, 0>>}
InitDig ==
    /\ \E o \in DigOrigins : \E width \in 1..2 : \E a, b \in {AIR, WATER, STONE} :
          /\ world = [c \in Region |->
                         IF c \in Ground THEN DIRT
                         ELSE IF c = o THEN a
                         ELSE IF c = Plus(o, <<1, 0, 0>>) THEN b ELSE AIR]
          /\ tasks = << Dig(o, 1, width, 1, 0) >>
    /\ pos \in NearFar
    /\ stack = <<1>>
    /\ triples = {}
    /\ objOf = Terrain(world)
    /\ unreachable = {}
    /\ placeModes = {"ok"}
    /\ Fresh

NextDig == StepDig \/ StepDestroy \/ StepMove \/ Pop

SpecDig == InitDig /\ [][NextDig]_vars

\* The choice of the target taken by itself: a forced Build of stone over
\* a block of two by two cells, each of them stone already or air, with any
\* attempts left, and the agent on any cell of the ground row it can stand on.
TargetRegion == {c \in Region : c[1] \in 1..2}
InitTarget ==
    /\ world \in [Region -> {AIR, STONE}]
    /\ \A c \in Region \ TargetRegion : world[c] = AIR
    /\ \E a \in [RelCells(<<2, MaxY + 1, MaxZ + 1>>) -> 0..3] :
          tasks = << [Build({<<c, STONE>> : c \in TargetRegion}, MinCorner(TargetRegion),
                            FALSE, TRUE, TRUE, FALSE, {}, 0, world)
                        EXCEPT !.attempts = a] >>
    /\ pos \in {p \in Starts : world[p] = AIR /\ world[Plus(p, UP)] = AIR}
    /\ stack = <<1>>
    /\ triples = {}
    /\ objOf = Terrain(world)
    /\ unreachable = {}
    /\ placeModes = {"ok"}
    /\ Fresh

\* Build.step up to the call of get_next_target: the cell it returns.
SelectTarget ==
    /\ CanStep("Build")
    /\ phase = 0
    /\ LET b == tasks[Top]
           current == Current(b, world)
           diff == Diff(b, current)
       IN  /\ diff # {}
           /\ RemoveMask(diff, current) = {}
           /\ calls' = << <<"target", get_next_target(b, pos, diff)>> >>
    /\ phase' = 1
    /\ UNCHANGED <<world, pos, tasks, stack, triples, objOf, unreachable, placeModes, chats,
                   stepped, digs, raised, nEnv>>

NextTarget == SelectTarget

SpecTarget == InitTarget /\ [][NextTarget]_vars

\* A Build of dirt in an empty world where a placement may succeed, fail, or
\* report success and leave the cell as it was.
InitPlaced ==
    /\ world = WorldWith({}, AIR)
    /\ \E T \in CellSets : \E m \in BuildModes :
          tasks = << Build({<<c, DIRT>> : c \in T}, MinCorner(T), m[1], m[2],
                           TRUE, FALSE, {}, 0, world) >>
    /\ pos \in NearFar
    /\ stack = <<1>>
    /\ triples = {}
    /\ objOf = NoObjects
    /\ unreachable = {}
    /\ placeModes = {"ok", "fail", "bad"}
    /\ Fresh

NextPlaced == StepBuild \/ StepMove \/ Pop

SpecPlaced == InitPlaced /\ [][NextPlaced]_vars

\* A Move whose pathfinder never finds a route, in a box of three by three
\* by two cells filled with stone around the agent, from a corner of the box
\* to any place the agent can stand at, stepped again and again; the blocks
\* it digs can all be put back, or none of them can.
NoPathRegion == (0..2) \X (0..2) \X (0..1)
InitNoPath ==
    /\ pos \in {<<0, 0, 0>>, <<2, 1, 1>>}
    /\ world = [c \in NoPathRegion |-> IF c \in {pos, Plus(pos, UP)} THEN AIR ELSE STONE]
    /\ \E target \in {p \in NoPathRegion : Plus(p, UP) \in NoPathRegion} :
       \E approx \in {0, 1} :
          /\ unreachable = {target}
          /\ tasks = << Move(target, approx, 0) >>
    /\ stack = <<1>>
    /\ triples = {}
    /\ objOf = Terrain(world)
    /\ placeModes \in {{"ok"}, {"fail"}}
    /\ Fresh

NextNoPath == StepMove \/ Pop

SpecNoPath == InitNoPath /\ [][NextNoPath]_vars /\ WF_vars(StepMove)

\* A forced Build of one stone at the agent's foot or head cell, the agent
\* at the bottom of a shaft of stone, one cell wide and three or four cells
\* high under a ceiling of stone; some of the cells next to its feet are
\* open, those next to its head are not.  Every placement succeeds, and
\* the scheduler steps the top of the stack for ever.
ShaftRegion == (0..2) \X (0..5) \X (0..2)
ShaftPos == <<1, 1, 1>>
ShaftHeights == {3, 4}
ShaftSides == {c \in ShaftRegion : c[2] = 1 /\ manhat_dist(c, ShaftPos) = 1}
InitShaft ==
    /\ \E h \in ShaftHeights : \E S \in SUBSET ShaftSides : \E open \in PASSABLE_BLOCKS :
          world = [c \in ShaftRegion |->
                      IF c[1] = 1 /\ c[3] = 1 /\ c[2] \in 1..h THEN AIR
                      ELSE IF c \in S THEN open ELSE STONE]
    /\ pos = ShaftPos
    /\ \E target \in {pos, Plus(pos, UP)} :
          tasks = << Build({<<target, STONE>>}, target, FALSE, TRUE, FALSE, FALSE, {}, 0,
                           world) >>
    /\ stack = <<1>>
    /\ triples = {}
    /\ objOf = Terrain(world)
    /\ unreachable = {}
    /\ placeModes = {"ok"}
    /\ Fresh

NextShaft == StepBuild \/ Pop

SpecShaft == InitShaft /\ [][NextShaft]_vars /\ WF_vars(NextShaft)

-----------------------------------------------------------------------------
(* Destroy: the claims. *)

\* the cells the Destroy of the scenario was given
DestroyTargets == strip_idmeta(tasks[1].schematic)

DestroySucceeded ==
    /\ tasks[1].xyz_remaining = {}
    /\ \A c \in Cells : digs[c] = IF c \in DestroyTargets THEN 1 ELSE 0
    /\ <<1, NoPathChat>> \notin chats

\* C3: a Destroy over N cells that are all reachable, stepped with its Move
\* children until they finish, finishes; and when it has finished it has dug
\* each of the N cells exactly once and no other cell, its remaining set is
\* empty, and it has not sent the "no path, giving up" chat.
C3_DestroyCompleteness ==
    /\ (unreachable = {}) ~> tasks[1].finished
    /\ []((unreachable = {} /\ tasks[1].finished) => DestroySucceeded)

C3_Witness ==
    /\ unreachable = {}
    /\ tasks[1].finished
    /\ Cardinality(DestroyTargets) = MaxCells
    /\ Len(tasks) > 1
    /\ DestroySucceeded

DestroyGaveUp ==
    /\ tasks[1].xyz_remaining # {}
    /\ <<1, NoPathChat>> \in chats

-----------------------------------------------------------------------------
(* Build: the claims. *)

Builds == {t \in 1..Len(tasks) : tasks[t].kind = "Build"}

\* The cell r of Build b holds what the schematic wants, or what counts as it:
\* a block of the ignore set, or the other block of an interchangeable pair.
CountsAsEqual(b, w, r) ==
    LET cur == get_block(w, Plus(r, b.origin))
    IN  \/ cur = b.schematic[r]
        \/ cur \in BUILD_IGNORE_BLOCKS
        \/ \E pair \in BUILD_INTERCHANGEABLE_PAIRS : cur \in pair /\ b.schematic[r] \in pair

\* C1 as stated: in the step in which a Build sets finished, every cell of its
\* region holds a block that counts as equal to the schematic's, or has
\* attempts counter 0.
C1_BuildConvergence_Original ==
    [][\A t \in Builds : (~tasks[t].finished /\ tasks'[t].finished) =>
          \A r \in DOMAIN tasks[t].schematic :
             CountsAsEqual(tasks'[t], world', r) \/ tasks'[t].attempts[r] = 0]_vars

\* C1 as amended: in the step in which a Build sets finished, every cell of
\* its region holds a block that counts as equal to the schematic's, or has
\* attempts counter 0, or, in an embed Build, is a cell where the schematic
\* holds no block.
C1_BuildConvergence ==
    [][\A t \in Builds : (~tasks[t].finished /\ tasks'[t].finished) =>
          \A r \in DOMAIN tasks[t].schematic :
             \/ CountsAsEqual(tasks'[t], world', r)
             \/ tasks'[t].attempts[r] = 0
             \/ tasks'[t].embed /\ tasks'[t].schematic[r] = AIR]_vars

\* A Build has just finished with a cell it gave up on and, in another cell,
\* a block of the ignore set or of an interchangeable pair.
C1_Witness ==
    \E t \in Builds :
       /\ stepped = t
       /\ tasks[t].finished
       /\ \E r \in DOMAIN tasks[t].schematic :
             /\ tasks[t].attempts[r] = 0
             /\ ~CountsAsEqual(tasks[t], world, r)
       /\ \E r \in DOMAIN tasks[t].schematic :
             /\ tasks[t].schematic[r] # AIR
             /\ get_block(world, Plus(r, tasks[t].origin)) # tasks[t].schematic[r]
             /\ CountsAsEqual(tasks[t], world, r)

\* C2: the attempts counter of every cell of every Build starts at 3, is
\* never above 3 nor below 0, and no step and no world change increases it.
C2_AttemptsMonotone ==
    /\ [](\A t \in Builds : \A r \in DOMAIN tasks[t].schematic :
             tasks[t].attempts[r] \in 0..3)
    /\ [][\A t \in Builds : \A r \in DOMAIN tasks[t].schematic :
             tasks'[t].attempts[r] <= tasks[t].attempts[r]]_vars
    /\ [][\A t \in (Len(tasks) + 1)..Len(tasks') : tasks'[t].kind = "Build" =>
             \A r \in DOMAIN tasks'[t].schematic : tasks'[t].attempts[r] = 3]_vars

\* A cell's counter has reached 0 in a world that others changed.
C2_Witness ==
    \E t \in Builds :
       /\ nEnv > 0
       /\ \E r \in DOMAIN tasks[t].schematic : tasks[t].attempts[r] = 0
       /\ \E r \in DOMAIN tasks[t].schematic : tasks[t].attempts[r] \in 1..2

-----------------------------------------------------------------------------
(* Move: the claims. *)

Moves == {t \in 1..Len(tasks) : tasks[t].kind = "Move"}
CallKinds == {calls[i][1] : i \in 1..Len(calls)}

\* C7: a step of Move taken with the agent within Manhattan distance approx
\* of the target and with an empty replace set, its first step included, sets
\* finished and makes no dig, no place, no movement and no pathfinding call;
\* the world and the agent's position are as before.
C7_MoveSingleStep ==
    [][\A t \in Moves :
          (/\ StepMove
           /\ Top = t
           /\ manhat_dist(pos, tasks[t].target) <= tasks[t].approx
           /\ tasks[t].replace = {})
          => /\ tasks'[t].finished
             /\ CallKinds' \cap {"dig", "place", "move", "astar"} = {}
             /\ world' = world
             /\ pos' = pos
             /\ digs' = digs]_vars

\* The Move of the scenario has finished in its first step: it never asked
\* for a path, which any other step does.
C7_Witness ==
    /\ tasks[1].kind = "Move"
    /\ tasks[1].finished
    /\ stepped = 1
    /\ tasks[1].path = None
    /\ unreachable = {}
    /\ manhat_dist(pos, tasks[1].target) = tasks[1].approx
    /\ tasks[1].approx > 0

\* The steps in which Move asks the pathfinder and gets no route.
NoPathStep(t) ==
    /\ StepMove
    /\ Top = t
    /\ manhat_dist(pos, tasks[t].target) > tasks[t].approx
    /\ tasks[t].path = None \/ pos # tasks[t].path[Len(tasks[t].path)]
    /\ tasks[t].target \in unreachable

\* C10 as stated: when the pathfinder reports the target unreachable, the
\* Move finishes in that step and the user is notified.
C10_MoveUnreachable_Original ==
    [][\A t \in Moves : NoPathStep(t) =>
          /\ tasks'[t].finished
          /\ \E msg \in {BuiltChat, FilledChat, SkipChat, DugChat, NoPathChat} :
                <<t, msg>> \in chats']_vars

\* C10 as amended: when the pathfinder reports the target unreachable, the
\* Move neither finishes in that step nor notifies the user: it digs the
\* blocks of the foot and head cell next to the agent, in a direction with a
\* positive dot product with target - position, queues them in the replace
\* set and calls that direction's movement primitive.  A Move sets finished
\* only in a step that starts within approx of the target.
C10_MoveUnreachable ==
    /\ [][\A t \in Moves : NoPathStep(t) =>
             /\ ~tasks'[t].finished
             /\ chats' = chats
             /\ Len(calls') > 0
             /\ LET last == calls'[Len(calls')]
                    newpos == Plus(pos, last[2])
                IN  /\ last[1] = "move"
                    /\ Dot(Minus(tasks[t].target, pos), last[2]) > 0
                    /\ \A c \in {newpos, Plus(newpos, UP)} \cap Cells :
                          /\ world'[c] = AIR
                          /\ world[c] # AIR => <<c, world[c]>> \in tasks'[t].replace]_vars
    /\ [][\A t \in Moves : (~tasks[t].finished /\ tasks'[t].finished) =>
             manhat_dist(pos, tasks[t].target) <= tasks[t].approx]_vars

\* A Move without a route has dug its way and arrived.
C10_Witness ==
    /\ tasks[1].kind = "Move"
    /\ tasks[1].target \in unreachable
    /\ tasks[1].finished
    /\ \E c \in Cells : digs[c] > 0

-----------------------------------------------------------------------------
(* Loop: the claims. *)

Loops == {t \in 1..Len(tasks) : tasks[t].kind = "Loop"}

\* C8: a step of Loop in which the stop condition is false leaves finished
\* false, whatever the factory returns, the empty list included; finished
\* becomes true only in a step of the Loop in which the stop condition is
\* true, and that step does not call the factory and pushes nothing.
C8_LoopNonTermination ==
    /\ [][\A t \in Loops :
             (StepLoop /\ Top = t /\ calls'[1] = <<"check", FALSE>>)
             => ~tasks'[t].finished]_vars
    /\ [][\A t \in Loops :
             (~tasks[t].finished /\ tasks'[t].finished)
             => /\ StepLoop
                /\ Top = t
                /\ calls' = << <<"check", TRUE>> >>
                /\ Len(tasks') = Len(tasks)
                /\ stack' = stack]_vars

\* A Loop has finished after steps that pushed tasks and after one in which
\* the factory returned nothing.
C8_Witness ==
    /\ tasks[1].kind = "Loop"
    /\ tasks[1].new_tasks_fn = "spawn"
    /\ tasks[1].finished
    /\ Len(tasks) > 1
    /\ stepped = 1

-----------------------------------------------------------------------------
(* Interrupts: the claim. *)

AnyStep ==
    \/ StepMove \/ StepBuild \/ StepDestroy \/ StepFill
    \/ StepDig \/ StepSpawn \/ StepLoop \/ StepUndo

\* C9: interrupt() sets the interrupted flag of the task and changes nothing
\* else, and after the next step of a task, of whichever of the kinds Move,
\* Build, Destroy, Fill, Dig, Spawn, Loop and Undo, its flag is false.
C9_InterruptProtocol ==
    /\ [][Interrupt =>
             /\ \E t \in 1..Len(tasks) : tasks' = [tasks EXCEPT ![t].interrupted = TRUE]
             /\ UNCHANGED <<world, pos, stack, triples, objOf, chats, digs, raised>>]_vars
    /\ [][\A t \in 1..Len(tasks) :
             (AnyStep /\ Top = t) => ~tasks'[t].interrupted]_vars

-----------------------------------------------------------------------------
(* Fill: the claims. *)

\* the cells outside the coordinate list of the Fill the scenario starts with
OutsideFill == Cells \ tasks[1].schematic
PlacedAt(c) == \E i \in 1..Len(calls) : calls[i][1] = "place" /\ calls[i][2] = c
\* no block outside the list is dug or replaced in this step
FillFrame == \A c \in OutsideFill : digs'[c] = digs[c] /\ ~PlacedAt(c)'

\* C6 as stated: in no step of the whole execution of a Fill, of the tasks
\* of its Build and Destroy included, is a block outside the coordinate list
\* of the Fill dug or replaced.
C6_FillEmbed_Original == [][FillFrame]_vars

\* C6 as amended: no step of the Fill, of its Build or of a Destroy the Build
\* pushes digs or places a block at a cell outside the coordinate list of the
\* Fill, or changes the world there, also when the cell lies in the bounding
\* box of the list and holds a block of another type.  A Move these tasks
\* push may dig such a cell, when the pathfinder finds no route; it queues
\* the block it dug in its replace set.
C6_FillEmbed ==
    /\ [][(StepFill \/ StepBuild \/ StepDestroy) =>
             /\ FillFrame
             /\ \A c \in OutsideFill : world'[c] = world[c]]_vars
    /\ [][StepMove =>
             \A c \in OutsideFill :
                /\ digs'[c] > digs[c] =>
                      \E e \in tasks'[Top].replace : e[1] = c /\ e[2] # AIR
                /\ PlacedAt(c)' => \E e \in tasks[Top].replace : e[1] = c]_vars

\* The Build of the Fill has finished, after a Destroy of the dirt in the
\* list: the list holds the fill, the stone in its gap is where it was and
\* has not been dug.
C6_Witness ==
    /\ tasks[1].kind = "Fill"
    /\ Len(tasks) >= 3
    /\ tasks[2].finished
    /\ tasks[3].kind = "Destroy"
    /\ tasks[3].finished
    /\ Cardinality(tasks[1].schematic) = 2
    /\ \A c \in tasks[1].schematic : world[c] = tasks[1].block_idm
    /\ world[<<1, 0, 0>>] = STONE
    /\ digs[<<1, 0, 0>>] = 0
    /\ digs[<<0, 0, 0>>] > 0

-----------------------------------------------------------------------------
(* The round trip of Build, Destroy and Undo: the claims. *)

\* the Destroy the caller pushed, and the Build its undo pushed
RootDestroys == {d \in 1..Len(tasks) : tasks[d].kind = "Destroy" /\ tasks[d].parent = 0}
Rebuilds(d) == {r \in 1..Len(tasks) : tasks[r].kind = "Build" /\ tasks[r].parent = d}
\* every has_tag, has_name and has_colour triple of the first object is one
\* of the object r
TagsRestored(r) ==
    \A x \in triples :
       (x[1] = <<"obj", 1>> /\ x[2] \in {"has_tag", "has_name", "has_colour"})
       => <<<<"obj", r>>, x[2], x[3]>> \in triples
\* the block list S of the first Build, at the origin the Build built at
SchematicAtOrigin ==
    LET S == tasks[1].task_data.blocks_list
        lo == MinCorner(strip_idmeta(S))
    IN  {<<Plus(Minus(e[1], lo), tasks[1].origin), e[2]>> : e \in S}

-----------------------------------------------------------------------------
(* The task stack: the claims. *)

\* task c is a child of task t, or a child of a descendant of t
RECURSIVE IsDescendant(_, _)
IsDescendant(c, t) ==
    IF tasks[c].parent = 0 THEN FALSE
    ELSE tasks[c].parent = t \/ IsDescendant(tasks[c].parent, t)

\* C11: a tick steps the task on top of the stack and no other: the fields
\* of every other task stay as they are.  A task that pushed a child, a Build
\* its Destroy or Move, a Destroy or a Spawn its Move, a Loop the tasks of
\* its factory, is stepped again only when that child and every descendant
\* of the child has finished.
C11_StackSuspension ==
    [][\A t \in 1..Len(tasks) :
          (AnyStep /\ Top = t) =>
             /\ stepped' = t
             /\ \A u \in (1..Len(tasks)) \ {t} : tasks'[u] = tasks[u]
             /\ \A c \in 1..Len(tasks) : IsDescendant(c, t) => tasks[c].finished]_vars

\* A Build that pushed a Destroy, which pushed a Move, has been stepped
\* again and has finished.
C11_Witness ==
    /\ Len(tasks) >= 4
    /\ tasks[2].kind = "Build"
    /\ tasks[2].finished
    /\ tasks[3].kind = "Destroy"
    /\ tasks[3].parent = 2
    /\ tasks[4].kind = "Move"
    /\ tasks[4].parent = 3
    /\ tasks[4].finished

-----------------------------------------------------------------------------
(* Build: the notice of a skipped block. *)

\* the cells of a Build whose counter is 0
Exhausted(b) == {r \in DOMAIN b.schematic : b.attempts[r] = 0}
\* the number of times the step sent the notice
SkipCount ==
    Cardinality({i \in 1..Len(calls) : calls[i][1] = "chat" /\ calls[i][2] = SkipChat})
DugAt(c) == \E i \in 1..Len(calls) : calls[i][1] = "dig" /\ calls[i][2] = c

\* C12: a Build sends the notice of a skipped block at most once, in the
\* step in which the counter of one of its cells reaches 0 for the first
\* time, and no other task sends it.  A cell whose counter is 0 is not dug,
\* not placed and not walked to again, and its counter stays 0.  The Build
\* goes on: it finishes only when every cell whose counter is above 0 holds
\* what the schematic asks for (or, embedded, is a cell the schematic leaves
\* open).
C12_SkipNoticeOnce ==
    /\ [][\A t \in Builds :
             (StepBuild /\ Top = t) =>
                /\ SkipCount' <= 1
                /\ SkipCount' = 1 <=> (Exhausted(tasks[t]) = {} /\ Exhausted(tasks'[t]) # {})
                /\ \A r \in Exhausted(tasks[t]) :
                      /\ tasks'[t].attempts[r] = 0
                      /\ ~DugAt(Plus(r, tasks[t].origin))'
                      /\ ~PlacedAt(Plus(r, tasks[t].origin))'
                      /\ \A n \in (Len(tasks) + 1)..Len(tasks') :
                            tasks'[n].kind = "Move" =>
                               tasks'[n].target # Plus(r, tasks[t].origin)
                /\ tasks'[t].finished =>
                      \A r \in DOMAIN tasks[t].schematic :
                         \/ tasks'[t].attempts[r] = 0
                         \/ CountsAsEqual(tasks'[t], world', r)
                         \/ tasks'[t].embed /\ tasks'[t].schematic[r] = AIR]_vars
    /\ [][~StepBuild => SkipCount' = 0]_vars

\* A Build has finished with the counters of two cells at 0 and the notice
\* sent.
C12_Witness ==
    \E t \in Builds :
       /\ tasks[t].finished
       /\ Cardinality(Exhausted(tasks[t])) = 2
       /\ <<t, SkipChat>> \in chats

-----------------------------------------------------------------------------
(* Build: stepping aside. *)

\* the six directions in the order +z, -z, +x, -x, +y, -y
AxisOrder == << <<0, 0, 1>>, <<0, 0, -1>>, <<1, 0, 0>>, <<-1, 0, 0>>, <<0, 1, 0>>, <<0, -1, 0>> >>
\* the directions in which the cell next to the agent and the one above it
\* are passable
Free ==
    {i \in 1..6 :
        /\ get_block(world, Plus(pos, AxisOrder[i])) \in PASSABLE_BLOCKS
        /\ get_block(world, Plus(Plus(pos, AxisOrder[i]), UP)) \in PASSABLE_BLOCKS}
\* the Build on top of the stack is about to place into the agent's own cell
StandsInTarget(t) ==
    LET b == tasks[t]
        current == Current(b, world)
        diff == Diff(b, current)
    IN  /\ diff # {}
        /\ RemoveMask(diff, current) = {}
        /\ InFootprint(b, pos, get_next_target(b, pos, diff))

\* C13: a Build about to place into the cell of the agent's feet or head
\* steps aside: it calls the movement primitive of the first direction, in
\* the order +z, -z, +x, -x, +y, -y, whose foot and head cell are passable,
\* and nothing else.  If there is no such direction the step raises an
\* error, calls no movement primitive, sends no chat and leaves finished
\* false.
C13_TotalEnclosureFatal ==
    [][\A t \in Builds :
          (StepBuild /\ Top = t /\ StandsInTarget(t)) =>
             /\ ~tasks'[t].finished
             /\ chats' = chats
             /\ world' = world
             /\ IF Free = {}
                THEN /\ raised' # "none"
                     /\ calls' = <<>>
                     /\ pos' = pos
                ELSE LET first == CHOOSE i \in Free : \A j \in Free : i <= j
                     IN  /\ raised' = "none"
                         /\ calls' = << <<"move", AxisOrder[first]>> >>
                         /\ pos' = Plus(pos, AxisOrder[first])]_vars

\* An agent enclosed on all sides: the Build has raised the error.
C13_Witness ==
    /\ raised # "none"
    /\ pos = AsidePos
    /\ stepped = 1
    /\ ~tasks[1].finished
    /\ Free = {}

-----------------------------------------------------------------------------
(* Build.undo: the claims. *)

\* the block of the snapshot of Build b at cell c, air if it has none
OldBlock(b, c) ==
    IF \E e \in b.old_blocks_list[1] : e[1] = c
    THEN (CHOOSE e \in b.old_blocks_list[1] : e[1] = c)[2]
    ELSE AIR
\* the region of Build b holds what the snapshot of its first step holds
Restored(b) ==
    \A r \in DOMAIN b.schematic :
       get_block(world, Plus(r, b.origin)) = OldBlock(b, Plus(r, b.origin))
\* the Undo has been stepped and is on top of the stack again: every task it
\* pushed, and every task pushed by these, has finished and is off the stack
UndoDone ==
    /\ stack # <<>>
    /\ tasks[Top].kind = "Undo"
    /\ tasks[Top].finished
\* the step of an Undo of a Build that has been stepped
UndoOfBuild(k) ==
    /\ StepUndo
    /\ tasks[Top].to_undo_memid = k
    /\ tasks[k].kind = "Build"
    /\ tasks[k].old_blocks_list # <<>>
\* task n, pushed in this step, is a forced Build of the snapshot of Build k
IsRebuild(n, k) ==
    /\ n <= Len(tasks')
    /\ tasks'[n].kind = "Build"
    /\ tasks'[n].parent = k
    /\ tasks'[n].force
    /\ tasks'[n].task_data.blocks_list = tasks[k].old_blocks_list[1]
    /\ tasks'[n].origin = tasks[k].old_origin[1]
\* task n, pushed in this step, is a Destroy of the cells of new_blocks
IsUnbuild(n, k) ==
    /\ n <= Len(tasks')
    /\ tasks'[n].kind = "Destroy"
    /\ tasks'[n].parent = k
    /\ tasks'[n].xyz_remaining = strip_idmeta(NewBlocks(tasks[k]))
\* when the tasks of the undo are done, the region is as in the snapshot
UndoRestores ==
    UndoDone => Restored(tasks[tasks[Top].to_undo_memid])

-----------------------------------------------------------------------------
(* Fill: the dispatch. *)

\* the step of the Fill pushes one task, a Build with embed and force set,
\* sets finished, and neither digs nor places
FillPushesBuild ==
    LET n == Len(tasks) + 1
    IN  /\ Len(tasks') = n
        /\ \A u \in (1..Len(tasks)) \ {Top} : tasks'[u] = tasks[u]
        /\ stack' = Append(stack, n)
        /\ tasks'[n].kind = "Build"
        /\ tasks'[n].embed /\ tasks'[n].force
        /\ tasks'[n].task_data.blocks_list
              = {<<c, tasks[Top].block_idm>> : c \in tasks[Top].schematic}
        /\ tasks'[Top].finished
        /\ world' = world /\ digs' = digs /\ pos' = pos
        /\ \A i \in 1..Len(calls') : calls'[i][1] \notin {"place", "dig", "move"}

\* C15: the first step of a Fill pushes exactly one Build, with embed and
\* force set, on the task stack as a child of the Fill, and sets finished in
\* that step; the Fill itself digs nothing and places nothing.
C15_FillDispatch ==
    [][StepFill => FillPushesBuild /\ tasks'[Len(tasks')].parent = Top]_vars

-----------------------------------------------------------------------------
(* Dig: the cell list. *)

\* the volume a Dig asks for: width x length cells, depth layers down from
\* the origin
Requested(d) ==
    (d.origin[1]..(d.origin[1] + d.width - 1))
       \X ((d.origin[2] - (d.depth - 1))..d.origin[2])
       \X (d.origin[3]..(d.origin[3] + d.length - 1))
TopLayer(d) == {c \in Requested(d) : c[2] = d.origin[2]}
TopPassable(d) == \A c \in TopLayer(d) : get_block(world, c) \in PASSABLE_BLOCKS
\* the cells of the Destroy pushed in this step
Handed == strip_idmeta(tasks'[Len(tasks')].schematic)

\* C16: the cell list a Dig hands to its Destroy holds exactly width x length
\* x depth cells: the volume asked for moved one layer down when its top
\* layer is passable throughout, and the volume asked for otherwise.
C16_DigVolumeShift ==
    [][StepDig =>
         LET d == tasks[Top]
         IN  /\ Cardinality(Handed) = d.width * d.length * d.depth
             /\ Handed = IF TopPassable(d)
                         THEN {Plus(c, <<0, -1, 0>>) : c \in Requested(d)}
                         ELSE Requested(d)]_vars

-----------------------------------------------------------------------------
(* Spawn: the single attempt. *)

Spawns == {t \in 1..Len(tasks) : tasks[t].kind = "Spawn"}
PlaceCalls(cs) == {i \in 1..Len(cs) : cs[i][1] = "place"}
\* the Spawn with memid t has found the entity it spawned
SpawnFound(t) == \E x \in triples : x[1] = <<"task", t>> /\ x[2] = "task_effect_"

\* C17: a step of a Spawn farther than reach 3 from its target pushes one
\* Move to the target as its child and leaves finished false; a step within
\* reach makes exactly one placement call, one cell above the target, and
\* sets finished, whether an entity is found afterwards or not.
C17_SpawnOneAttempt ==
    [][\A t \in Spawns : (StepSpawn /\ Top = t) =>
          LET sp == tasks[t]
              n == Len(tasks) + 1
          IN  IF manhat_dist(pos, sp.pos) > 3
              THEN /\ Len(tasks') = n
                   /\ stack' = Append(stack, n)
                   /\ tasks'[n].kind = "Move"
                   /\ tasks'[n].target = sp.pos
                   /\ tasks'[n].parent = t
                   /\ ~tasks'[t].finished
                   /\ PlaceCalls(calls') = {}
                   /\ pos' = pos
              ELSE /\ Len(tasks') = Len(tasks)
                   /\ stack' = stack
                   /\ Cardinality(PlaceCalls(calls')) = 1
                   /\ \A i \in PlaceCalls(calls') :
                         calls'[i][2] = Plus(sp.pos, <<0, 1, 0>>)
                   /\ tasks'[t].finished]_vars

\* A Spawn that was stepped within reach is finished although it found no
\* entity, after a Move of its own had brought the agent within reach.
C17_Witness ==
    \E t \in Spawns :
       /\ stepped = t
       /\ tasks[t].finished
       /\ ~SpawnFound(t)
       /\ PlaceCalls(calls) # {}
       /\ \E m \in 1..Len(tasks) : tasks[m].kind = "Move" /\ tasks[m].parent = t

-----------------------------------------------------------------------------
(* Build: the choice of the target. *)

\* the agent's own cells, relative to the Build
OwnCell(b, r) == Plus(r, b.origin) = pos \/ Plus(r, b.origin) = Plus(pos, <<0, 1, 0>>)
\* cell r comes before cell q: out of the footprint before in it, then lower
\* y, then more attempts left, then nearer to the agent
Before(b, r, q) ==
    LET dr == manhat_dist(Plus(r, b.origin), pos)
        dq == manhat_dist(Plus(q, b.origin), pos)
    IN  \/ ~OwnCell(b, r) /\ OwnCell(b, q)
        \/ OwnCell(b, r) = OwnCell(b, q) /\ r[2] < q[2]
        \/ OwnCell(b, r) = OwnCell(b, q) /\ r[2] = q[2] /\ b.attempts[r] > b.attempts[q]
        \/ OwnCell(b, r) = OwnCell(b, q) /\ r[2] = q[2] /\ b.attempts[r] = b.attempts[q]
              /\ dr < dq
Masked == Diff(tasks[1], Current(tasks[1], world))
Selected == phase = 1 /\ Len(calls) = 1 /\ calls[1][1] = "target"

\* C18: for every mask that is not empty, every position of the agent and
\* every grid of attempts, get_next_target returns a cell of the mask that no
\* other cell of the mask comes before, in the order: out of the agent's
\* foot and head cell first, then y ascending, then attempts descending,
\* then Manhattan distance to the agent ascending; a cell of the footprint
\* is returned only when every cell of the mask is in the footprint.
C18_TargetSelection ==
    Selected =>
       LET b == tasks[1]
           r == calls[1][2]
       IN  /\ r \in Masked
           /\ \A q \in Masked : ~Before(b, q, r)
           /\ OwnCell(b, r) => \A q \in Masked : OwnCell(b, q)

\* A choice among three masked cells or more: the cell returned has more
\* attempts left than a nearer cell of its layer, and a cell of a higher
\* layer is as near as the cell returned.
C18_Witness ==
    /\ Selected
    /\ Cardinality(Masked) >= 3
    /\ LET b == tasks[1]
           r == calls[1][2]
       IN  /\ \E q \in Masked :
                 /\ q[2] = r[2]
                 /\ b.attempts[q] < b.attempts[r]
                 /\ manhat_dist(Plus(q, b.origin), pos) < manhat_dist(Plus(r, b.origin), pos)
           /\ \E q \in Masked :
                 /\ q[2] > r[2]
                 /\ manhat_dist(Plus(q, b.origin), pos) <= manhat_dist(Plus(r, b.origin), pos)

-----------------------------------------------------------------------------
(* Build: clearing before placing. *)

\* the cells of the mask of Build t that hold a block other than air
InTheWay(t) ==
    {Plus(r, tasks[t].origin) :
        r \in {q \in Diff(tasks[t], Current(tasks[t], world)) :
                  get_block(world, Plus(q, tasks[t].origin)) # AIR}}
ActsOnWorld(cs) == {i \in 1..Len(cs) : cs[i][1] \in {"place", "dig", "move"}}

\* C19: a step of a Build in which a cell of the mask holds a block other
\* than air pushes one Destroy, its child, of exactly the cells of the mask
\* that hold one, and places, digs, moves and decrements nothing; so a Build
\* tries to place only at a cell that held air when the step began.
C19_ClearBeforePlace ==
    [][\A t \in Builds : (StepBuild /\ Top = t) =>
          /\ InTheWay(t) # {} =>
                LET n == Len(tasks) + 1
                IN  /\ Len(tasks') = n
                    /\ stack' = Append(stack, n)
                    /\ tasks'[n].kind = "Destroy"
                    /\ tasks'[n].parent = t
                    /\ strip_idmeta(tasks'[n].schematic) = InTheWay(t)
                    /\ ActsOnWorld(calls') = {}
                    /\ world' = world /\ pos' = pos /\ digs' = digs
                    /\ tasks'[t].attempts = tasks[t].attempts
                    /\ tasks'[t].new_blocks = tasks[t].new_blocks
                    /\ ~tasks'[t].finished
          /\ \A i \in PlaceCalls(calls') : get_block(world, calls'[i][2]) = AIR]_vars

\* A Build has put a block at a cell that a Destroy of its own had cleared.
C19_Witness ==
    \E t \in Builds : \E n \in 1..Len(tasks) :
       /\ tasks[n].kind = "Destroy"
       /\ tasks[n].parent = t
       /\ tasks[n].finished
       /\ stepped = t
       /\ \E i \in PlaceCalls(calls) : calls[i][2] \in strip_idmeta(tasks[n].schematic)

-----------------------------------------------------------------------------
(* Build: the attempts grid. *)

\* the cells whose attempts counter this step changes
Spent(t) == {r \in DOMAIN tasks[t].attempts : tasks'[t].attempts[r] # tasks[t].attempts[r]}

\* C20: a step of a Build changes the attempts grid only when the cell it
\* chose is within Manhattan distance 3 of the agent and is not the agent's
\* foot or head cell, and then it takes exactly 1 from the counter of that
\* cell and leaves every other counter as it is; a step that finishes,
\* pushes a Destroy, steps aside or pushes a Move leaves the attempts grid
\* and new_blocks as they are.
C20_RetryBudget ==
    [][\A t \in Builds : (StepBuild /\ Top = t) =>
          /\ Spent(t) # {} =>
                \E r \in Spent(t) :
                   LET target == Plus(r, tasks[t].origin)
                   IN  /\ Spent(t) = {r}
                       /\ tasks'[t].attempts[r] = tasks[t].attempts[r] - 1
                       /\ manhat_dist(pos, target) <= 3
                       /\ target # pos /\ target # Plus(pos, <<0, 1, 0>>)
                       /\ \A i \in PlaceCalls(calls') : calls'[i][2] = target
          /\ PlaceCalls(calls') # {} => Spent(t) # {}
          /\ (\/ tasks'[t].finished
              \/ Len(tasks') > Len(tasks)
              \/ \E i \in 1..Len(calls') : calls'[i][1] = "move"
              \/ raised' # "none")
                => /\ Spent(t) = {}
                   /\ tasks'[t].new_blocks = tasks[t].new_blocks]_vars

\* A Build that had a Move bring it within reach has tried, and failed, to
\* place a block: that cell has two attempts left and another cell three.
C20_Witness ==
    \E t \in Builds :
       /\ stepped = t
       /\ \E i \in PlaceCalls(calls) :
             /\ ~calls[i][4]
             /\ tasks[t].attempts[Minus(calls[i][2], tasks[t].origin)] = 2
       /\ \E r \in DOMAIN tasks[t].attempts : tasks[t].attempts[r] = 3
       /\ tasks[t].new_blocks = <<>>
       /\ \E m \in 1..Len(tasks) : tasks[m].kind = "Move" /\ tasks[m].parent = t

-----------------------------------------------------------------------------
(* Build: what new_blocks records. *)

\* C21: an entry is appended to new_blocks of a Build only when the call of
\* place_block reported success and the cell, read back, holds the block of
\* the schematic; when the call reports success and the cell read back holds
\* something else, nothing is recorded, nothing is raised, and the attempts
\* counter of the cell is still decremented.
C21_NewBlocksPlaced ==
    [][\A t \in Builds : (StepBuild /\ Top = t) =>
          /\ tasks'[t].new_blocks # tasks[t].new_blocks =>
                \E i \in PlaceCalls(calls') :
                   /\ calls'[i][4]
                   /\ get_block(world', calls'[i][2]) = calls'[i][3]
                   /\ tasks'[t].new_blocks
                         = Append(tasks[t].new_blocks, <<calls'[i][2], calls'[i][3]>>)
          /\ \A i \in PlaceCalls(calls') :
                (calls'[i][4] /\ get_block(world', calls'[i][2]) # calls'[i][3]) =>
                   LET r == Minus(calls'[i][2], tasks[t].origin)
                   IN  /\ tasks'[t].new_blocks = tasks[t].new_blocks
                       /\ raised' = "none"
                       /\ tasks'[t].attempts[r] = tasks[t].attempts[r] - 1]_vars

-----------------------------------------------------------------------------
(* Move: the replace set. *)

\* place_block was called in this step for the pair e and returned ret
Restoring(e, ret) ==
    \E i \in PlaceCalls(calls') :
       calls'[i][2] = e[1] /\ calls'[i][3] = e[2] /\ calls'[i][4] = ret
DigCalls(cs) == {i \in 1..Len(cs) : cs[i][1] = "dig"}

\* C22: a pair of a cell and a block that the no-path fallback of a Move put
\* in its replace set is in the set after every later step, until a step in
\* which place_block for that block at that cell reports success; a
\* restoration that fails leaves the pair in the set, and no step takes a
\* pair out of the set otherwise.
C22_ReplaceRetention ==
    /\ [][\A t \in Moves : (StepMove /\ Top = t) =>
             /\ \A e \in tasks[t].replace :
                   /\ e \notin tasks'[t].replace => Restoring(e, TRUE)
                   /\ Restoring(e, FALSE) => e \in tasks'[t].replace
             /\ \A i \in DigCalls(calls') :
                   \E e \in tasks'[t].replace :
                      e[1] = calls'[i][2] /\ e[2] = get_block(world, e[1])]_vars
    /\ [][\A t \in Moves : ~(StepMove /\ Top = t) =>
             tasks'[t].replace = tasks[t].replace]_vars

\* A Move has tried to put back a block it dug on its way, the placement
\* failed, and the pair is still in its replace set.
C22_Witness ==
    \E t \in Moves :
       /\ stepped = t
       /\ \E e \in tasks[t].replace :
             /\ digs[e[1]] > 0
             /\ \E i \in PlaceCalls(calls) :
                   calls[i][2] = e[1] /\ calls[i][3] = e[2] /\ ~calls[i][4]

-----------------------------------------------------------------------------
(* Move: progress without a route. *)

\* C23: when the pathfinder returns no route, the fallback takes a direction
\* with a positive dot product with target - position, digs the blocks of
\* the foot and head cell next to the agent in that direction, puts them in
\* the replace set and calls the movement primitive of that direction; so a
\* Move stepped again and again with a pathfinder that always fails comes
\* within approx of its target and finishes.
C23_FallbackProgress ==
    /\ [][NoPathStep(1) =>
             \E i \in 1..6 :
                LET vec == STEP_FNS[i]
                    newpos == Plus(pos, vec)
                IN  /\ Dot(Minus(tasks[1].target, pos), vec) > 0
                    /\ calls'[Len(calls')] = <<"move", vec>>
                    /\ pos' = newpos
                    /\ manhat_dist(pos', tasks[1].target)
                          = manhat_dist(pos, tasks[1].target) - 1
                    /\ \A c \in {newpos, Plus(newpos, UP)} :
                          /\ world'[c] = AIR
                          /\ world[c] # AIR => <<c, world[c]>> \in tasks'[1].replace]_vars
    /\ <>(tasks[1].finished /\ manhat_dist(pos, tasks[1].target) <= tasks[1].approx)

\* A Move without a route has dug through three cells or more, upwards too,
\* and has finished within approx of its target.
C23_Witness ==
    /\ tasks[1].kind = "Move"
    /\ tasks[1].target \in unreachable
    /\ tasks[1].finished
    /\ manhat_dist(pos, tasks[1].target) <= tasks[1].approx
    /\ Cardinality({c \in Cells : digs[c] > 0}) >= 3
    /\ \E c \in Cells : digs[c] > 0 /\ c[2] = 2

-----------------------------------------------------------------------------
(* Build: termination. *)

\* C24: when the scheduler keeps stepping the top of the stack, a Build
\* sets finished in the end, whatever the world does: with placements that
\* always fail, and with the agent on the only cell left to fill, in a shaft
\* where it can only step up and down again.
C24_BuildTermination == <>(tasks[1].kind = "Build" /\ tasks[1].finished)

-----------------------------------------------------------------------------
(* Move: restoring under the agent. *)

\* C25: in no step does a Move call place_block, to put back a block of its
\* replace set, at the cell of the agent's feet or of its head; not in the
\* step after the no-path fallback either, which dug the foot and head cell
\* next to the agent, queued their blocks and moved the agent there.
C25_NoRestoreOntoSelf ==
    [][\A t \in Moves : (StepMove /\ Top = t) =>
          \A i \in PlaceCalls(calls') :
             calls'[i][2] # pos /\ calls'[i][2] # Plus(pos, <<0, 1, 0>>)]_vars

=============================================================================
